---------------------------- MODULE Spec2Model ----------------------------
(***************************************************************************)
(* Source location resolution engine of nextjs-locator: the source-map     *)
(* store (cache + retrieval), the sectioned map resolver, the VLQ decoder, *)
(* the runtime debug adapter and the Locator event handlers that call them.*)
(*                                                                         *)
(* JavaScript strings are modelled as sequences of one-character strings,  *)
(* so that startsWith / slice / split / indexOf are computed, not assumed. *)
(***************************************************************************)
EXTENDS Integers, Sequences, FiniteSets, TLC

(***************************************************************************)
(* String helpers (String.prototype.startsWith / slice / indexOf / split)  *)
(***************************************************************************)

\* s.startsWith(p)
StartsWith(s, p) ==
    /\ Len(p) <= Len(s)
    /\ \A i \in 1..Len(p) : s[i] = p[i]

\* s.slice(n) for 0 <= n
SliceFrom(s, n) ==
    IF n >= Len(s) THEN <<>> ELSE SubSeq(s, n + 1, Len(s))

\* s.indexOf(p) : 0-based index of the first occurrence of p in s, or -1
IndexOfStr(s, p) ==
    LET hits == {i \in 0..(Len(s) - Len(p)) :
                    \A k \in 1..Len(p) : s[i + k] = p[k]}
    IN IF hits = {} THEN -1
       ELSE CHOOSE i \in hits : \A j \in hits : i <= j

\* s.split(sep) for a one-character separator: always at least one piece
RECURSIVE SplitFrom(_, _, _, _)
SplitFrom(s, sep, i, cur) ==
    IF i > Len(s) THEN <<cur>>
    ELSE IF s[i] = sep THEN <<cur>> \o SplitFrom(s, sep, i + 1, <<>>)
    ELSE SplitFrom(s, sep, i + 1, Append(cur, s[i]))

Split(s, sep) == SplitFrom(s, sep, 1, <<>>)

(***************************************************************************)
(* 32-bit integer operators of JavaScript (<<, >>, &)                      *)
(***************************************************************************)

RECURSIVE Pow2(_)
Pow2(n) == IF n = 0 THEN 1 ELSE 2 * Pow2(n - 1)

\* ToInt32 of the ECMAScript specification.  TLC's integers are exactly the
\* 32-bit signed integers, so on every value TLC can hold ToInt32 is the
\* identity; a JavaScript number outside that range makes TLC stop with an
\* overflow error instead of giving a wrong answer.
ToInt32(x) == x

\* a << s for a >= 0: the low (32 - s % 32) bits of a, moved up, read as a
\* signed 32-bit integer.
ShiftLeft(a, s) ==
    LET n == s % 32
        keep == 32 - n
        low == IF keep >= 31 THEN a ELSE a % Pow2(keep)
    IN IF n = 0 THEN a
       ELSE IF low >= Pow2(keep - 1)
            THEN LET x == low - Pow2(keep - 1) - Pow2(keep - 1)
                 IN x * Pow2(n - 1) + x * Pow2(n - 1)
            ELSE low * Pow2(n)

\* a >> 1 (sign-propagating)
ShiftRight1(a) == ToInt32(a) \div 2

(***************************************************************************)
(* vlq.ts                                                                  *)
(***************************************************************************)

BASE64_CHARS ==
    <<"A","B","C","D","E","F","G","H","I","J","K","L","M","N","O","P","Q",
      "R","S","T","U","V","W","X","Y","Z","a","b","c","d","e","f","g","h",
      "i","j","k","l","m","n","o","p","q","r","s","t","u","v","w","x","y",
      "z","0","1","2","3","4","5","6","7","8","9","+","/">>

\* BASE64_CHARS.indexOf(char)
Base64Digit(char) == IndexOfStr(BASE64_CHARS, <<char>>)

\* The VLQ operators below bind each intermediate value (digit, tok, decoded,
\* ...) as the parameter of a helper operator; the helper is the rest of the
\* loop body that uses the value.

RECURSIVE VlqToken(_, _, _, _)

\* Lines 75-80: the body of the inner while loop once `digit` is known.
\* ok = FALSE is the `return null` on an unknown character.
VlqTokenDigit(segment, i, value, shift, digit) ==
    IF digit = -1 THEN [ok |-> FALSE, value |-> 0, next |-> i]
    ELSE IF (digit \div 32) % 2 = 1 /\ i + 1 <= Len(segment)
         THEN VlqToken(segment, i + 1, value + ShiftLeft(digit % 32, shift),
                       shift + 5)
         ELSE [ok |-> TRUE, value |-> value + ShiftLeft(digit % 32, shift),
               next |-> i + 1]

\* Lines 73-81: the inner while loop of decodeVLQSegment, one token starting
\* at the 1-based position i
VlqToken(segment, i, value, shift) ==
    VlqTokenDigit(segment, i, value, shift, Base64Digit(segment[i]))

\* Mutant of SignedValue: the sign bit is dropped and never applied
SignedValueUnsigned(raw) == ShiftRight1(raw)

\* Lines 84-86: the sign bit is the least significant bit
SignedValue(raw) ==
    IF ToInt32(raw) % 2 = 1 THEN -ShiftRight1(raw) ELSE ShiftRight1(raw)

RECURSIVE VlqValues(_, _, _)

\* Mutant of VlqValuesToken: an unknown character ends the decoding and the
\* values decoded before it are returned
VlqValuesTokenPartial(segment, values, tok) ==
    IF ~tok.ok THEN [ok |-> TRUE, values |-> values]
    ELSE VlqValues(segment, tok.next, Append(values, SignedValue(tok.value)))

\* Lines 76, 84-86: the rest of the outer loop body once the token is read
VlqValuesToken(segment, values, tok) ==
    IF ~tok.ok THEN [ok |-> FALSE, values |-> <<>>]
    ELSE VlqValues(segment, tok.next, Append(values, SignedValue(tok.value)))

\* Lines 68-87: the outer while loop of decodeVLQSegment
VlqValues(segment, i, values) ==
    IF i > Len(segment) THEN [ok |-> TRUE, values |-> values]
    ELSE VlqValuesToken(segment, values, VlqToken(segment, i, 0, 0))

\* decodeVLQSegment(segment): ok = FALSE stands for null
decodeVLQSegment(segment) ==
    IF segment = <<>> THEN [ok |-> FALSE, values |-> <<>>]
    ELSE VlqValues(segment, 1, <<>>)

\* Mutant of AddDeltas: each decoded segment replaces the accumulators
AddDeltasReplace(acc, values) ==
    [gc |-> values[1], si |-> values[2], ol |-> values[3], oc |-> values[4]]

\* Lines 40-43: the four accumulators after a decoded segment
AddDeltas(acc, values) ==
    [gc |-> acc.gc + values[1], si |-> acc.si + values[2],
     ol |-> acc.ol + values[3], oc |-> acc.oc + values[4]]

\* Lines 46-49, 55-58: the position returned from the accumulators
PositionOf(acc) ==
    [isNull |-> FALSE, originalLine |-> acc.ol + 1, originalColumn |-> acc.oc]

RECURSIVE DecodeSegments(_, _, _, _, _)

\* Mutant of DecodeSegmentsAcc: the early return needs the generated column
\* to be beyond the target column
DecodeSegmentsAccStrict(segments, k, acc2, onTargetLine, targetColumn) ==
    IF onTargetLine /\ acc2.gc > targetColumn
    THEN [found |-> TRUE, acc |-> acc2]
    ELSE DecodeSegments(segments, k + 1, acc2, onTargetLine, targetColumn)

\* Line 45: the early return on the target line; found = TRUE is that return
DecodeSegmentsAcc(segments, k, acc2, onTargetLine, targetColumn) ==
    IF onTargetLine /\ acc2.gc >= targetColumn
    THEN [found |-> TRUE, acc |-> acc2]
    ELSE DecodeSegments(segments, k + 1, acc2, onTargetLine, targetColumn)

\* Lines 38-50: the loop body once the segment is decoded
DecodeSegmentsDecoded(segments, k, acc, onTargetLine, targetColumn, decoded) ==
    IF ~decoded.ok \/ Len(decoded.values) < 4
    THEN DecodeSegments(segments, k + 1, acc, onTargetLine, targetColumn)
    ELSE DecodeSegmentsAcc(segments, k, AddDeltas(acc, decoded.values),
                           onTargetLine, targetColumn)

\* Lines 36-51: the loop over the segments of one generated line
DecodeSegments(segments, k, acc, onTargetLine, targetColumn) ==
    IF k > Len(segments) THEN [found |-> FALSE, acc |-> acc]
    ELSE DecodeSegmentsDecoded(segments, k, acc, onTargetLine, targetColumn,
                               decodeVLQSegment(segments[k]))

RECURSIVE DecodeLines(_, _, _, _, _)

\* Lines 45-51: after the segments of line lineIdx
DecodeLinesLine(generatedLines, lineIdx, targetLine, targetColumn, r) ==
    IF r.found THEN PositionOf(r.acc)
    ELSE DecodeLines(generatedLines, lineIdx + 1, targetLine, targetColumn,
                     r.acc)

\* Mutant of DecodeLines: an empty target line gives null
DecodeLinesEmptyNull(generatedLines, lineIdx, targetLine, targetColumn, acc) ==
    IF lineIdx > targetLine THEN PositionOf(acc)
    ELSE IF generatedLines[lineIdx + 1] = <<>>
         THEN IF lineIdx = targetLine
              THEN [isNull |-> TRUE, originalLine |-> 0, originalColumn |-> 0]
              ELSE DecodeLines(generatedLines, lineIdx + 1, targetLine,
                               targetColumn, acc)
         ELSE DecodeLinesLine(generatedLines, lineIdx, targetLine, targetColumn,
                  DecodeSegments(Split(generatedLines[lineIdx + 1], ","), 1,
                                 [acc EXCEPT !.gc = 0],
                                 lineIdx = targetLine, targetColumn))

\* Lines 29-58: the loop over generated lines 0..targetLine and the final
\* return
DecodeLines(generatedLines, lineIdx, targetLine, targetColumn, acc) ==
    IF lineIdx > targetLine THEN PositionOf(acc)
    ELSE IF generatedLines[lineIdx + 1] = <<>>
         THEN DecodeLines(generatedLines, lineIdx + 1, targetLine,
                          targetColumn, acc)
         ELSE DecodeLinesLine(generatedLines, lineIdx, targetLine, targetColumn,
                  DecodeSegments(Split(generatedLines[lineIdx + 1], ","), 1,
                                 [acc EXCEPT !.gc = 0],
                                 lineIdx = targetLine, targetColumn))

\* Lines 19-21: after mappings.split(';')
DecodeSplit(generatedLines, targetLine, targetColumn) ==
    IF targetLine >= Len(generatedLines)
    THEN [isNull |-> TRUE, originalLine |-> 0, originalColumn |-> 0]
    ELSE DecodeLines(generatedLines, 0, targetLine, targetColumn,
                     [gc |-> 0, si |-> 0, ol |-> 0, oc |-> 0])

\* decodeOriginalPosition(mappings, targetLine, targetColumn)
decodeOriginalPosition(mappings, targetLine, targetColumn) ==
    DecodeSplit(Split(mappings, ";"), targetLine, targetColumn)

(***************************************************************************)
(* source-map.ts (in preview-panel.ts): path derivation and the resolver   *)
(***************************************************************************)

\* An optional string argument / environment variable: has = FALSE is
\* undefined.
Undefined == [has |-> FALSE, val |-> <<>>]
Some(str) == [has |-> TRUE, val |-> str]

FILE_PREFIX == <<"f","i","l","e",":","/","/">>
TURBOPACK_PREFIX == <<"t","u","r","b","o","p","a","c","k",":","/","/","/">>
TURBOPACK_PROJECT ==
    <<"t","u","r","b","o","p","a","c","k",":","/","/","/",
      "[","p","r","o","j","e","c","t","]","/">>
USERS_DIR == <<"U","s","e","r","s","/">>
HOME_DIR == <<"h","o","m","e","/">>

\* Characters the regular expression's `.` does not match
LineTerminators == {"\n", "\r"}

\* The capture group (.*): the longest run without a line terminator
RECURSIVE DotStar(_, _)
DotStar(s, i) ==
    IF i > Len(s) \/ s[i] \in LineTerminators THEN <<>>
    ELSE <<s[i]>> \o DotStar(s, i + 1)

\* Lines 326-333: the path for the captured group
TurbopackPath(relativePath, projectRoot, envRoot) ==
    IF StartsWith(relativePath, USERS_DIR) \/ StartsWith(relativePath, HOME_DIR)
    THEN <<"/">> \o relativePath
    ELSE (IF projectRoot.has THEN projectRoot.val
          ELSE IF envRoot.has THEN envRoot.val
          ELSE <<>>) \o <<"/">> \o relativePath

\* Lines 324-335: idx is where the regular expression matches, -1 if nowhere
TurbopackMatch(uri, projectRoot, envRoot, idx) ==
    IF idx # -1
    THEN TurbopackPath(DotStar(uri, idx + Len(TURBOPACK_PROJECT) + 1),
                       projectRoot, envRoot)
    ELSE uri

\* extractPathFromTurbopack(uri, projectRoot); envRoot is
\* process.env.NEXT_PUBLIC_PROJECT_ROOT
extractPathFromTurbopack(uri, projectRoot, envRoot) ==
    TurbopackMatch(uri, projectRoot, envRoot,
                   IndexOfStr(uri, TURBOPACK_PROJECT))

\* Lines 290-296 of resolveSourceMap: the file path of a source URI.  The
\* call passes no projectRoot to extractPathFromTurbopack.
FilePathOf(sourceUri, envRoot) ==
    IF StartsWith(sourceUri, FILE_PREFIX) THEN SliceFrom(sourceUri, 7)
    ELSE IF StartsWith(sourceUri, TURBOPACK_PREFIX)
         THEN extractPathFromTurbopack(sourceUri, Undefined, envRoot)
         ELSE sourceUri

\* A section of a sectioned map is [offsetLine, sources, mappings]:
\* offset.line, map.sources, map.mappings.

\* Mutant of MatchedSection: the scan runs from the first section up
RECURSIVE MatchedSectionFirst(_, _, _)
MatchedSectionFirst(sections, i, generatedLine) ==
    LET first == {k \in 1..Len(sections) :
                     sections[k].offsetLine <= generatedLine}
    IN IF first = {} THEN 0 ELSE CHOOSE k \in first : \A j \in first : k <= j

\* Lines 280-286: the index of the matched section; 0 is `null`.  The loop
\* runs i from the end down and stops at the first section whose
\* offset.line <= generatedLine.
RECURSIVE MatchedSection(_, _, _)
MatchedSection(sections, i, generatedLine) ==
    IF i < 1 THEN 0
    ELSE IF sections[i].offsetLine <= generatedLine THEN i
    ELSE MatchedSection(sections, i - 1, generatedLine)

\* The values a resolution returns
Null == [tag |-> "null"]
ResolvedSource(filePath, originalLine, originalColumn) ==
    [tag |-> "source", filePath |-> filePath,
     originalLine |-> originalLine, originalColumn |-> originalColumn]

\* Mutant of SourceAt: a decode miss fails the resolution
SourceAtStrict(filePath, originalPos) ==
    IF originalPos.isNull THEN Null
    ELSE ResolvedSource(filePath, originalPos.originalLine,
                        originalPos.originalColumn)

\* Lines 306-310: the returned object
SourceAt(filePath, originalPos) ==
    ResolvedSource(filePath,
                   IF originalPos.isNull THEN 1 ELSE originalPos.originalLine,
                   IF originalPos.isNull THEN 0 ELSE originalPos.originalColumn)

\* Mutant of ResolveInSection: the mappings are decoded at the generated
\* line, without subtracting the section's offset
ResolveInSectionAbsolute(matchedSection, generatedLine, generatedColumn, envRoot) ==
    IF Len(matchedSection.sources) = 0 THEN Null
    ELSE SourceAt(FilePathOf(matchedSection.sources[1], envRoot),
                  decodeOriginalPosition(matchedSection.mappings,
                                         generatedLine, generatedColumn))

\* Lines 288-310 for a matched section
ResolveInSection(matchedSection, generatedLine, generatedColumn, envRoot) ==
    IF Len(matchedSection.sources) = 0 THEN Null
    ELSE SourceAt(FilePathOf(matchedSection.sources[1], envRoot),
                  decodeOriginalPosition(matchedSection.mappings,
                                         generatedLine - matchedSection.offsetLine,
                                         generatedColumn))

\* Line 288: m is the index of the matched section, 0 for null
ResolveMatched(sections, m, generatedLine, generatedColumn, envRoot) ==
    IF m = 0 THEN Null
    ELSE ResolveInSection(sections[m], generatedLine, generatedColumn, envRoot)

\* Lines 279-310 of resolveSourceMap: the synchronous part that runs once
\* the sections are at hand
ResolveInSections(sections, generatedLine, generatedColumn, envRoot) ==
    ResolveMatched(sections,
                   MatchedSection(sections, Len(sections), generatedLine),
                   generatedLine, generatedColumn, envRoot)

(***************************************************************************)
(* The runtime debug adapter (fiber.ts).  A fiber is a record                *)
(* [tag, return, type, debugSource, debugStack]; fibers are numbered from 1 *)
(* and 0 is `null`.                                                         *)
(***************************************************************************)

\* An optional number: `undefined` or a value
NoNumber == [has |-> FALSE, val |-> 0]
Num(n) == [has |-> TRUE, val |-> n]

\* s.includes(p)
Includes(s, p) == IndexOfStr(s, p) # -1

\* findNearestComponentFiber(fiber): tag 0 = FunctionComponent, tag 1 =
\* ClassComponent
RECURSIVE findNearestComponentFiber(_, _)
findNearestComponentFiber(fibers, current) ==
    IF current = 0 THEN 0
    ELSE IF fibers[current].tag = 0 \/ fibers[current].tag = 1 THEN current
    ELSE findNearestComponentFiber(fibers, fibers[current].return)

\* getComponentName(fiber): fiber.type.displayName || fiber.type.name ||
\* null; the empty sequence is `null`
getComponentName(fibers, fiber) ==
    IF fiber = 0 THEN <<>>
    ELSE IF ~fibers[fiber].type.has THEN <<>>
    ELSE IF fibers[fiber].type.displayName # <<>>
         THEN fibers[fiber].type.displayName
         ELSE fibers[fiber].type.name

\* The markers of React-internal frames that extractStackFrame skips
InternalFrameMarkers ==
    { <<"j","s","x","D","E","V">>,
      <<"r","e","a","c","t","-","s","t","a","c","k","-","t","o","p","-","f","r","a","m","e">>,
      <<"r","e","a","c","t","_","s","t","a","c","k","_","b","o","t","t","o","m","_","f","r","a","m","e">>,
      <<"r","e","a","c","t","-","d","o","m">>,
      <<"r","e","n","d","e","r","W","i","t","h","H","o","o","k","s">>,
      <<"b","e","g","i","n","W","o","r","k">>,
      <<"p","e","r","f","o","r","m","U","n","i","t","O","f","W","o","r","k">> }

Digits == <<"0","1","2","3","4","5","6","7","8","9">>
IsDigit(c) == \E d \in 1..10 : Digits[d] = c
DigitValue(c) == (CHOOSE d \in 1..10 : Digits[d] = c) - 1

\* The index of the last character of the longest run of digits that starts
\* at index k of s; k - 1 when s has no digit at k
RECURSIVE DigitRunEnd(_, _)
DigitRunEnd(s, k) ==
    IF k > Len(s) THEN k - 1
    ELSE IF IsDigit(s[k]) THEN DigitRunEnd(s, k + 1)
    ELSE k - 1

\* parseInt(s.substring(from - 1, to), 10) for a run of digits
RECURSIVE ParseInt(_, _, _, _)
ParseInt(s, from, to, acc) ==
    IF from > to THEN acc
    ELSE ParseInt(s, from + 1, to, acc * 10 + DigitValue(s[from]))

NoFrame == [isNull |-> TRUE, chunkUrl |-> <<>>, line |-> 0, column |-> 0]

\* `:(\d+):(\d+)\)` matched at index p of s, the first run of digits ending
\* at e1 and the second at e2
FrameTailRuns(s, urlFrom, p, e1, e2) ==
    IF /\ e1 >= p + 1
       /\ e1 + 1 <= Len(s)
       /\ s[e1 + 1] = ":"
       /\ e2 >= e1 + 2
       /\ e2 + 1 <= Len(s)
       /\ s[e2 + 1] = ")"
    THEN [isNull |-> FALSE, chunkUrl |-> SubSeq(s, urlFrom, p - 1),
          line |-> ParseInt(s, p + 1, e1, 0),
          column |-> ParseInt(s, e1 + 2, e2, 0)]
    ELSE NoFrame

FrameTailRun(s, urlFrom, p, e1) ==
    FrameTailRuns(s, urlFrom, p, e1, DigitRunEnd(s, e1 + 2))

FrameTail(s, urlFrom, p) ==
    IF s[p] = ":" THEN FrameTailRun(s, urlFrom, p, DigitRunEnd(s, p + 1))
    ELSE NoFrame

\* `[^)]+?` from index q on, followed by the tail: the shortest extension
\* wins.  urlFrom is the index of the `h` of the scheme.
RECURSIVE FrameUrlFromTail(_, _, _, _)
RECURSIVE FrameUrl(_, _, _)
FrameUrlFromTail(s, urlFrom, p, tail) ==
    IF ~tail.isNull THEN tail
    ELSE IF s[p] = ")" THEN NoFrame
    ELSE FrameUrl(s, urlFrom, p + 1)

FrameUrl(s, urlFrom, p) ==
    IF p > Len(s) THEN NoFrame
    ELSE FrameUrlFromTail(s, urlFrom, p, FrameTail(s, urlFrom, p))

HTTP_OPEN == <<"(","h","t","t","p",":","/","/">>
HTTPS_OPEN == <<"(","h","t","t","p","s",":","/","/">>

\* /\((https?:\/\/[^)]+?):(\d+):(\d+)\)/ tried at index i of s
FrameAt(s, i) ==
    IF StartsWith(SliceFrom(s, i - 1), HTTP_OPEN)
    THEN IF i + 8 > Len(s) \/ s[i + 8] = ")" THEN NoFrame
         ELSE FrameUrl(s, i + 1, i + 9)
    ELSE IF StartsWith(SliceFrom(s, i - 1), HTTPS_OPEN)
    THEN IF i + 9 > Len(s) \/ s[i + 9] = ")" THEN NoFrame
         ELSE FrameUrl(s, i + 1, i + 10)
    ELSE NoFrame

\* line.match(...): the leftmost match
RECURSIVE FrameMatchFrom(_, _)
RECURSIVE FrameMatchTried(_, _, _)
FrameMatchTried(s, i, m) ==
    IF ~m.isNull THEN m ELSE FrameMatchFrom(s, i + 1)

FrameMatchFrom(s, i) ==
    IF i > Len(s) THEN NoFrame
    ELSE IF s[i] = "(" THEN FrameMatchTried(s, i, FrameAt(s, i))
    ELSE FrameMatchFrom(s, i + 1)

FrameMatch(s) == FrameMatchFrom(s, 1)

\* Mutant of FrameOfLine: the lines of React-internal frames are not skipped
FrameOfLineNoDenylist(line) ==
    IF ~Includes(line, <<"a","t"," ">>) THEN NoFrame
    ELSE FrameMatch(line)

\* The body of the loop of extractStackFrame for one line: the frame it
\* returns, or NoFrame when the loop goes on
FrameOfLine(line) ==
    IF ~Includes(line, <<"a","t"," ">>) THEN NoFrame
    ELSE IF \E m \in InternalFrameMarkers : Includes(line, m) THEN NoFrame
    ELSE FrameMatch(line)

RECURSIVE FrameOfLines(_, _)
RECURSIVE FrameOfLinesTried(_, _, _)
FrameOfLinesTried(lines, k, frame) ==
    IF ~frame.isNull THEN frame ELSE FrameOfLines(lines, k + 1)

FrameOfLines(lines, k) ==
    IF k > Len(lines) THEN NoFrame
    ELSE FrameOfLinesTried(lines, k, FrameOfLine(lines[k]))

\* extractStackFrame(debugStack); debugStack is [has, stack]
extractStackFrame(debugStack) ==
    IF ~debugStack.has \/ debugStack.stack = <<>> THEN NoFrame
    ELSE FrameOfLines(Split(debugStack.stack, "\n"), 1)

\* extractDebugSource with `||` in place of `??`: a zero line or column
\* is replaced by the default
extractDebugSourceFalsy(fibers, fiber) ==
    IF fiber = 0 THEN [tag |-> "null"]
    ELSE IF ~fibers[fiber].debugSource.has THEN [tag |-> "null"]
    ELSE IF fibers[fiber].debugSource.fileName = <<>> THEN [tag |-> "null"]
    ELSE [tag |-> "source",
          filePath |-> fibers[fiber].debugSource.fileName,
          originalLine |->
             IF fibers[fiber].debugSource.lineNumber.has
                /\ fibers[fiber].debugSource.lineNumber.val # 0
             THEN fibers[fiber].debugSource.lineNumber.val ELSE 1,
          originalColumn |->
             IF fibers[fiber].debugSource.columnNumber.has
             THEN fibers[fiber].debugSource.columnNumber.val ELSE 0]

\* extractDebugSource(fiber): fiber._debugSource is [has, fileName,
\* lineNumber, columnNumber]; an absent or empty fileName gives null
extractDebugSource(fibers, fiber) ==
    IF fiber = 0 THEN Null
    ELSE IF ~fibers[fiber].debugSource.has THEN Null
    ELSE IF fibers[fiber].debugSource.fileName = <<>> THEN Null
    ELSE ResolvedSource(
             fibers[fiber].debugSource.fileName,
             IF fibers[fiber].debugSource.lineNumber.has
             THEN fibers[fiber].debugSource.lineNumber.val ELSE 1,
             IF fibers[fiber].debugSource.columnNumber.has
             THEN fibers[fiber].debugSource.columnNumber.val ELSE 0)

\* The document: the elements in tree order, the fiber each element carries
\* under its __reactFiber$ key (0 for none), the location baked into its
\* data-locator-source attribute, and the fibers
NoElement == "none"
NoAttr == [has |-> FALSE, source |-> Null]
Attr(source) == [has |-> TRUE, source |-> source]

\* getFiberFromElement(element)
getFiberFromElement(doc, element) == doc.fiberOf[element]

\* extractDataLocatorSource(element): the location baked into the element's
\* attribute, or null
extractDataLocatorSource(doc, element) ==
    IF doc.attr[element].has THEN doc.attr[element].source ELSE Null

\* Lines 69-72 of resolveComponentSource: `if (element) { ... }`
AttributeSource(doc, element) ==
    IF element = NoElement THEN Null
    ELSE extractDataLocatorSource(doc, element)

\* What resolveComponentSource does before it returns or calls
\* resolveSourceMap: a value it returns at once, or the frame to resolve
ReturnNow(value) == [sync |-> TRUE, value |-> value, frame |-> NoFrame]
ReturnMap(frame) == [sync |-> FALSE, value |-> Null, frame |-> frame]

\* Lines 86-93
StackPlanRetried(stackInfo) ==
    IF stackInfo.isNull THEN ReturnNow(Null) ELSE ReturnMap(stackInfo)

\* Lines 80-85: the retry on the nearest component fiber
StackPlanNearest(fibers, componentFiber) ==
    IF componentFiber = 0 THEN ReturnNow(Null)
    ELSE StackPlanRetried(extractStackFrame(fibers[componentFiber].debugStack))

\* Mutant of StackPlan: no retry on the owner when the handle has no frame
StackPlanNoRetry(fibers, fiber, stackInfo) ==
    IF stackInfo.isNull THEN ReturnNow(Null) ELSE ReturnMap(stackInfo)

\* Lines 79-93
StackPlan(fibers, fiber, stackInfo) ==
    IF stackInfo.isNull
    THEN StackPlanNearest(fibers, findNearestComponentFiber(fibers, fiber))
    ELSE ReturnMap(stackInfo)

\* Lines 75-93
DebugSourcePlan(fibers, fiber, debugSource) ==
    IF debugSource # Null THEN ReturnNow(debugSource)
    ELSE StackPlan(fibers, fiber, extractStackFrame(fibers[fiber].debugStack))

\* Mutant of AttrPlan: the structured record wins over the attribute
AttrPlanRecordFirst(doc, fiber, attrSource) ==
    IF extractDebugSource(doc.fibers, fiber) # Null
    THEN ReturnNow(extractDebugSource(doc.fibers, fiber))
    ELSE IF attrSource # Null THEN ReturnNow(attrSource)
    ELSE DebugSourcePlan(doc.fibers, fiber, Null)

\* Lines 69-93
AttrPlan(doc, fiber, attrSource) ==
    IF attrSource # Null THEN ReturnNow(attrSource)
    ELSE DebugSourcePlan(doc.fibers, fiber,
                         extractDebugSource(doc.fibers, fiber))

\* resolveComponentSource(fiber, cache, _projectRoot, element) up to its
\* return or its call of resolveSourceMap
resolveComponentSource(doc, fiber, element) ==
    AttrPlan(doc, fiber, AttributeSource(doc, element))

\* collectVisibleChunkUrls(limit): the loop over the elements in tree order;
\* count grows only when a new URL is added.  The Set is the sequence of
\* its members in insertion order, the order `for ... of` visits them in.
RECURSIVE CollectFrom(_, _, _, _, _)
RECURSIVE CollectFrame(_, _, _, _, _, _)
CollectFrame(doc, k, urls, count, limit, stackInfo) ==
    IF /\ ~stackInfo.isNull
       /\ \A j \in 1..Len(urls) : urls[j] # stackInfo.chunkUrl
    THEN CollectFrom(doc, k + 1, Append(urls, stackInfo.chunkUrl), count + 1,
                     limit)
    ELSE CollectFrom(doc, k + 1, urls, count, limit)

CollectFrom(doc, k, urls, count, limit) ==
    IF k > Len(doc.order) \/ count >= limit THEN urls
    ELSE IF getFiberFromElement(doc, doc.order[k]) = 0
         THEN CollectFrom(doc, k + 1, urls, count, limit)
         ELSE CollectFrame(doc, k, urls, count, limit,
                  extractStackFrame(
                      doc.fibers[getFiberFromElement(doc, doc.order[k])].debugStack))

collectVisibleChunkUrls(doc, limit) == CollectFrom(doc, 1, <<>>, 0, limit)

\* The default of collectComponentAncestry(fiber, maxDepth = 20)
DefaultMaxDepth == 20

\* collectComponentAncestry(fiber, maxDepth): the named components on the
\* return path, innermost first; the walk stops after maxDepth fibers
RECURSIVE AncestryFrom(_, _, _, _, _)
AncestryFrom(fibers, current, depth, maxDepth, ancestors) ==
    IF current = 0 \/ depth >= maxDepth THEN ancestors
    ELSE AncestryFrom(
             fibers, fibers[current].return, depth + 1, maxDepth,
             IF (fibers[current].tag = 0 \/ fibers[current].tag = 1)
                /\ getComponentName(fibers, current) # <<>>
             THEN Append(ancestors,
                         [fiber |-> current,
                          name |-> getComponentName(fibers, current)])
             ELSE ancestors)

collectComponentAncestry(fibers, fiber, maxDepth) ==
    AncestryFrom(fibers, fiber, 0, maxDepth, <<>>)

\* fiber-inspect.ts: the heap the inspection works on is the fibers and the
\* module's renderCountMap (a WeakMap keyed by fiber).
\* trackRenderCount(fiber) returns the heap it leaves; the count it returns
\* is the entry it wrote
trackRenderCountOnFiber(heap, fiber) ==
    IF fiber = 0 THEN heap
    ELSE [heap EXCEPT !.renderCountMap[fiber] = @ + 1,
                      !.fibers[fiber].inspectable = TRUE]

trackRenderCount(heap, fiber) ==
    IF fiber = 0 THEN heap
    ELSE [heap EXCEPT !.renderCountMap[fiber] = @ + 1]

\* inspectFiber(fiber): extractProps, extractHookState and extractClassState
\* read memoizedProps, memoizedState and stateNode.state and serialize them
\* (safeSerialize below); the only write of the call is trackRenderCount's
inspectFiber(heap, fiber) ==
    [heap |-> trackRenderCount(heap, fiber),
     inspection |->
        [renderCount |-> IF fiber = 0 THEN 0
                         ELSE trackRenderCount(heap, fiber).renderCountMap[fiber],
         isClassComponent |-> IF fiber = 0 THEN FALSE
                              ELSE heap.fibers[fiber].tag = 1]]

(***************************************************************************)
(* Display path, editor URL and tooltip text                               *)
(***************************************************************************)

\* Template-literal conversion of a number to its decimal digits
RECURSIVE NaturalToString(_)
NaturalToString(n) ==
    IF n < 10 THEN <<Digits[n + 1]>>
    ELSE Append(NaturalToString(n \div 10), Digits[(n % 10) + 1])

NumberToString(n) ==
    IF n < 0 THEN <<"-">> \o NaturalToString(0 - n) ELSE NaturalToString(n)

\* parts.join(sep)
RECURSIVE Join(_, _)
Join(parts, sep) ==
    IF Len(parts) = 0 THEN <<>>
    ELSE IF Len(parts) = 1 THEN parts[1]
    ELSE parts[1] \o sep \o Join(Tail(parts), sep)

\* parts.slice(-3)
LastThree(parts) ==
    IF Len(parts) <= 3 THEN parts ELSE SubSeq(parts, Len(parts) - 2, Len(parts))

\* The directory markers of toRelativePath, in the order they are tried
PathMarkers ==
    << <<"/","s","r","c","/">>, <<"/","a","p","p","/">>,
       <<"/","p","a","g","e","s","/">>,
       <<"/","c","o","m","p","o","n","e","n","t","s","/">> >>

\* The marker that occurs leftmost in the path instead of the first in the
\* list
RelativeByMarkerLeftmost(absolutePath, k) ==
    IF \A j \in 1..Len(PathMarkers) : IndexOfStr(absolutePath, PathMarkers[j]) = -1
    THEN Join(LastThree(Split(absolutePath, "/")), <<"/">>)
    ELSE SliceFrom(absolutePath,
                   1 + CHOOSE i \in 0..Len(absolutePath) :
                           /\ \E j \in 1..Len(PathMarkers) :
                                 IndexOfStr(absolutePath, PathMarkers[j]) = i
                           /\ \A j \in 1..Len(PathMarkers) :
                                 IndexOfStr(absolutePath, PathMarkers[j]) \in {-1} \cup (i..Len(absolutePath)))

\* Lines 246-252 of toRelativePath: the marker loop from marker k on, then
\* the last three segments
RECURSIVE RelativeByMarker(_, _)
RECURSIVE RelativeByMarkerAt(_, _, _)
RelativeByMarkerAt(absolutePath, k, idx) ==
    IF idx # -1 THEN SliceFrom(absolutePath, idx + 1)
    ELSE RelativeByMarker(absolutePath, k + 1)

RelativeByMarker(absolutePath, k) ==
    IF k > Len(PathMarkers)
    THEN Join(LastThree(Split(absolutePath, "/")), <<"/">>)
    ELSE RelativeByMarkerAt(absolutePath, k,
                            IndexOfStr(absolutePath, PathMarkers[k]))

\* Lines 242-245: the root prefix stripped, with one leading separator
RelativeToRoot(relative) ==
    IF StartsWith(relative, <<"/">>) THEN SliceFrom(relative, 1) ELSE relative

\* root = projectRoot ?? process.env.NEXT_PUBLIC_PROJECT_ROOT ?? ''
RootOf(projectRoot, env) ==
    IF projectRoot.has THEN projectRoot.val
    ELSE IF env.has THEN env.val ELSE <<>>

ToRelativePathRoot(absolutePath, root) ==
    IF root # <<>> /\ StartsWith(absolutePath, root)
    THEN RelativeToRoot(SliceFrom(absolutePath, Len(root)))
    ELSE RelativeByMarker(absolutePath, 1)

\* toRelativePath(absolutePath, projectRoot)
toRelativePath(absolutePath, projectRoot, env) ==
    ToRelativePathRoot(absolutePath, RootOf(projectRoot, env))

\* EDITOR_PROTOCOLS
EDITOR_PROTOCOLS(editor) ==
    CASE editor = "vscode" -> <<"v","s","c","o","d","e",":","/","/","f","i","l","e">>
      [] editor = "vscode-insiders" ->
            <<"v","s","c","o","d","e","-","i","n","s","i","d","e","r","s",":","/","/","f","i","l","e">>
      [] editor = "cursor" -> <<"c","u","r","s","o","r",":","/","/","f","i","l","e">>
      [] editor = "webstorm" ->
            <<"w","e","b","s","t","o","r","m",":","/","/","o","p","e","n","?","f","i","l","e","=">>
      [] editor = "zed" -> <<"z","e","d",":","/","/","f","i","l","e">>

\* buildEditorUrl(editor, filePath, line, column)
buildEditorUrl(editor, filePath, line, column) ==
    IF editor = "webstorm"
    THEN EDITOR_PROTOCOLS(editor) \o filePath
             \o <<"&","l","i","n","e","=">> \o NumberToString(line)
             \o <<"&","c","o","l","u","m","n","=">> \o NumberToString(column)
    ELSE EDITOR_PROTOCOLS(editor) \o filePath
             \o <<":">> \o NumberToString(line)
             \o <<":">> \o NumberToString(column)

\* `<${componentName}>`, the text positionOverlay sets
NameText(name) == <<"<">> \o name \o <<">">>

\* `<${name}> — ${relativePath}:${resolved.originalLine}`, the text of
\* the hover callback; the dash is the one character "u2014"
LocatedText(name, relativePath, originalLine) ==
    NameText(name) \o <<" ", "u2014", " ">> \o relativePath
        \o <<":">> \o NumberToString(originalLine)

(***************************************************************************)
(* The state                                                               *)
(***************************************************************************)

VARIABLES
    server,     \* what GET unit + '.map' serves: the sections of each unit
    envRoot,    \* process.env.NEXT_PUBLIC_PROJECT_ROOT
    cache,      \* sourceMapCache: Map<string, SourceMapSections>
    req,        \* the calls of resolveSourceMap / prefetchSourceMap
    fetches,    \* per unit, the number of fetch(unit + '.map') calls issued
    doc,        \* the document: elements, their attributes and fibers
    props,      \* the props of <Locator>
    ui,         \* the state of the Locator effect and of its DOM nodes
    host,       \* the browser: pointer, window.open, console, rejections
    probe       \* the last direct call of a pure function: input and output

\* The bundle units (chunk URLs)
Units == {"u1", "u2"}

\* The number of resolveSourceMap / prefetchSourceMap calls of a run
MaxReq == 3
Requests == 1..MaxReq

\* The generated (line, column) positions that are queried
Positions == {<<1, 4>>, <<75, 6>>}

\* A map entry: has = FALSE is what Map.get returns for a missing key
NoEntry == [has |-> FALSE, sections |-> <<>>]
Entry(sections) == [has |-> TRUE, sections |-> sections]

\* The settled / unsettled values of a call's promise
Pending == [tag |-> "pending"]
Rejected == [tag |-> "rejected"]
Void == [tag |-> "void"]

\* The caller of a call: "api" is a direct call of the exported function
ApiOrigin == [by |-> "api", target |-> "none", index |-> 0]

\* No pure function has been called directly
NoProbe == [fn |-> "none"]

IdleReq ==
    [pc |-> "idle", kind |-> "none", unit |-> "none", line |-> 0, col |-> 0,
     result |-> Pending, fetched |-> FALSE, stored |-> FALSE, prior |-> {},
     origin |-> ApiOrigin]

\* The outcomes of `await fetch(url)`: the promise rejects (network error),
\* or resolves with resp.ok false or true
FetchOutcomes == {"reject", "notok", "ok"}

\* The outcomes of `await resp.json()` and of reading sm.sections: the body
\* is not JSON (json() rejects), is the JSON null (sm.sections throws), is an
\* object without (truthy) sections, or is an object with sections
JsonOutcomes == {"invalid", "null", "nosections", "sections"}

\* A sectioned map served for u1: offsets 0, 50, 120; the last section has
\* no sources
SectionsU1 ==
    << [offsetLine |-> 0,
        sources |-> << <<"f","i","l","e",":","/","/","/","a","/","A",".","t","s","x">> >>,
        mappings |-> <<"A","A","A","A",";","K","A","G","O">>],
       [offsetLine |-> 50,
        sources |-> << <<"t","u","r","b","o","p","a","c","k",":","/","/","/",
                         "[","p","r","o","j","e","c","t","]","/",
                         "s","r","c","/","A","p","p",".","t","s","x">> >>,
        mappings |-> <<"A","A","A","A",",","K","A","G","O">>],
       [offsetLine |-> 120, sources |-> <<>>, mappings |-> <<>>] >>

\* A sectioned map served for u2: its only section starts at line 2
SectionsU2 ==
    << [offsetLine |-> 2,
        sources |-> << <<"/","a","b","s","/","B",".","t","s","x">> >>,
        mappings |-> <<"K","A","G","O">>] >>

ServerFixture == [u \in Units |-> IF u = "u1" THEN SectionsU1 ELSE SectionsU2]

EnvRootFixture == Some(<<"/","r">>)

\* The URL of each bundle unit, and the unit a URL names
ChunkUrlOf ==
    [u \in Units |->
        IF u = "u1" THEN <<"h","t","t","p",":","/","/","h","/","a",".","j","s">>
        ELSE <<"h","t","t","p",":","/","/","h","/","b",".","j","s">>]
UnitOfUrl(url) == CHOOSE u \in Units : ChunkUrlOf[u] = url

\* Fibers
NoDebugSource ==
    [has |-> FALSE, fileName |-> <<>>, lineNumber |-> NoNumber,
     columnNumber |-> NoNumber]
NoDebugStack == [has |-> FALSE, stack |-> <<>>]
DebugStack(stack) == [has |-> TRUE, stack |-> stack]
NoType == [has |-> FALSE, displayName |-> <<>>, name |-> <<>>]
HostType == [has |-> TRUE, displayName |-> <<>>, name |-> <<>>]
NamedType(name) == [has |-> TRUE, displayName |-> <<>>, name |-> name]
HostFiber(return, debugStack) ==
    [tag |-> 5, return |-> return, type |-> HostType,
     debugSource |-> NoDebugSource, debugStack |-> debugStack,
     inspectable |-> FALSE]

\* Stack traces: a user frame of A in u1 below a React-internal frame, a
\* user frame in u1, a React-internal frame only, a user frame in u2
StackOfA ==
    <<"E","\n"," ","a","t"," ","j","s","x","D","E","V"," ","(","h","t","t","p",":","/","/","h","/","r",".","j","s",":","1",":","1",")","\n"," ","a","t"," ","A"," ","(","h","t","t","p",":","/","/","h","/","a",".","j","s",":","7","5",":","6",")">>
StackInU1 == <<" ","a","t"," ","B"," ","(","h","t","t","p",":","/","/","h","/","a",".","j","s",":","1",":","4",")">>
StackInternal == <<" ","a","t"," ","b","e","g","i","n","W","o","r","k"," ","(","h","t","t","p",":","/","/","h","/","a",".","j","s",":","1",":","4",")">>
StackInU2 == <<" ","a","t"," ","C"," ","(","h","t","t","p",":","/","/","h","/","b",".","j","s",":","3",":","5",")">>

\* The page of the Locator runs: e1 is rendered by the function component
\* A (stack only), e2 by the class component B inside A (structured record
\* and stack; the element's own fiber has a stack too), e3 by no component
Elements == {"e1", "e2", "e3"}
DocFixture ==
    [order |-> <<"e1", "e2", "e3">>,
     fiberOf |-> [e \in Elements |->
                    IF e = "e1" THEN 2 ELSE IF e = "e2" THEN 4 ELSE 5],
     attr |-> [e \in Elements |-> NoAttr],
     fibers |->
        << [tag |-> 0, return |-> 0, type |-> NamedType(<<"A">>),
            debugSource |-> NoDebugSource, debugStack |-> DebugStack(StackOfA),
            inspectable |-> TRUE],
           HostFiber(1, NoDebugStack),
           [tag |-> 1, return |-> 1, type |-> NamedType(<<"B">>),
            debugSource |->
                [has |-> TRUE,
                 fileName |-> <<"/","r","/","s","r","c","/","B",".","t","s","x">>,
                 lineNumber |-> Num(7), columnNumber |-> NoNumber],
            debugStack |-> DebugStack(StackInU1), inspectable |-> FALSE],
           HostFiber(3, DebugStack(StackInU1)),
           HostFiber(0, NoDebugStack) >>]

\* The props of <Locator>: the defaults, and an explicit projectRoot that is
\* not the root of the environment
PropsDefault ==
    [editor |-> "vscode", projectRoot |-> Undefined, modifier |-> "alt",
     showPreview |-> TRUE]
PropsWebstorm ==
    [editor |-> "webstorm", projectRoot |-> Some(<<"/","p">>),
     modifier |-> "shift", showPreview |-> FALSE]


(***************************************************************************)
(* resolveSourceMap / prefetchSourceMap as steps between their awaits      *)
(***************************************************************************)

\* Mutant of CacheHit: the cache is never consulted before fetching
CacheHitNever(c, u) == FALSE

\* `cache.get(chunkUrl)` is truthy / `cache.has(chunkUrl)`
CacheHit(c, u) == c[u].has

\* Mutant of CacheSet: the fetched sections are not stored
CacheSetNothing(c, u, sections) == c

\* `cache.set(chunkUrl, sections)`
CacheSet(c, u, sections) == [c EXCEPT ![u] = Entry(sections)]

\* Mutant of CacheOnFailure: a failed retrieval deletes the unit's entry
CacheDropOnFailure(c, u) == [c EXCEPT ![u] = NoEntry]

\* Mutant of CacheOnFailure: a failed retrieval is cached as an empty map
CacheNegativeOnFailure(c, u) == [c EXCEPT ![u] = Entry(<<>>)]

\* What the failure paths (return null / return / catch) do to the cache
CacheOnFailure(c, u) == c

\* The requests that have settled
Settled(rq) == {q \in DOMAIN rq : rq[q].pc = "done"}

\* resolveSourceMap(u, l, c, cache) up to its first await (lines 262-271)
ResolveCall(c, rq, r, u, l, col, origin) ==
    LET base == [IdleReq EXCEPT !.kind = "resolve", !.unit = u, !.line = l,
                                !.col = col, !.prior = Settled(rq),
                                !.origin = origin]
    IN IF CacheHit(c, u)
       THEN [base EXCEPT !.pc = "done",
                         !.result = ResolveInSections(c[u].sections, l, col,
                                                      envRoot)]
       ELSE [base EXCEPT !.pc = "fetch", !.fetched = TRUE]

\* Mutant of PrefetchCall: no `if (cache.has(chunkUrl)) return`
PrefetchCallNoCheck(c, rq, r, u, origin) ==
    [IdleReq EXCEPT !.kind = "prefetch", !.unit = u, !.prior = Settled(rq),
                    !.origin = origin, !.pc = "fetch", !.fetched = TRUE]

\* prefetchSourceMap(u, cache) up to its first await (lines 212-219)
PrefetchCall(c, rq, r, u, origin) ==
    LET base == [IdleReq EXCEPT !.kind = "prefetch", !.unit = u,
                                !.prior = Settled(rq), !.origin = origin]
    IN IF CacheHit(c, u)
       THEN [base EXCEPT !.pc = "done", !.result = Void]
       ELSE [base EXCEPT !.pc = "fetch", !.fetched = TRUE]

\* The fetch counter after a call for u
FetchesAfterCall(c, f, u) ==
    IF CacheHit(c, u) THEN f ELSE [f EXCEPT ![u] = @ + 1]

\* The call's record once `await fetch(...)` has settled with outcome o:
\* resolveSourceMap has no try/catch (lines 271-272), prefetchSourceMap
\* catches everything (lines 218-227)
AfterFetch(q, o) ==
    CASE o = "ok" -> [q EXCEPT !.pc = "json"]
      [] o = "notok" ->
            [q EXCEPT !.pc = "done",
                      !.result = IF q.kind = "resolve" THEN Null ELSE Void]
      [] OTHER ->
            [q EXCEPT !.pc = "done",
                      !.result = IF q.kind = "resolve" THEN Rejected ELSE Void]

\* The call's record once `await resp.json()` has settled with outcome b
\* and the rest of the function has run (lines 273-310, 221-227)
AfterJson(q, b, sections) ==
    CASE b = "sections" ->
            [q EXCEPT !.pc = "done", !.stored = TRUE,
                      !.result = IF q.kind = "resolve"
                                 THEN ResolveInSections(sections, q.line,
                                                        q.col, envRoot)
                                 ELSE Void]
      [] b = "nosections" ->
            [q EXCEPT !.pc = "done",
                      !.result = IF q.kind = "resolve" THEN Null ELSE Void]
      [] OTHER ->
            [q EXCEPT !.pc = "done",
                      !.result = IF q.kind = "resolve" THEN Rejected ELSE Void]

\* The cache once `await resp.json()` has settled with outcome b
CacheAfterJson(c, u, b, sections) ==
    IF b = "sections" THEN CacheSet(c, u, sections) ELSE CacheOnFailure(c, u)

\* Calls are numbered in the order they are made
NextToCall(r) ==
    /\ req[r].pc = "idle"
    /\ IF r = 1 THEN TRUE ELSE req[r - 1].pc # "idle"

(***************************************************************************)
(* The Locator component (Locator.tsx).  The handlers are functions of the *)
(* mutable state s = [cache, req, fetches, ui, host, ok]; ok is FALSE when *)
(* a handler needs more calls than Requests has numbers for.               *)
(***************************************************************************)

\* MODIFIER_KEYS[modifier] ?? 'Alt'
ModifierKeyOf(modifier) ==
    CASE modifier = "alt" -> "Alt"
      [] modifier = "ctrl" -> "Control"
      [] modifier = "meta" -> "Meta"
      [] modifier = "shift" -> "Shift"
      [] OTHER -> "Alt"

\* createContextMenu(): the container as created, without rows.  The
\* keydown listeners registered on the container are kept in registration
\* order; each is the closure of one showContextMenu call (its items and its
\* focusedIndex) and `shows` numbers the calls.  keydownHandler is the
\* container's _keydownHandler property, 0 when it is not set.
ContextMenuInit ==
    [display |-> FALSE, rows |-> <<>>, listeners |-> <<>>,
     keydownHandler |-> 0, shows |-> 0]

\* The state set up by the effect (lines 122-130) and the overlay, tooltip,
\* menu and panel elements as created (display: none)
UiInit ==
    [isModifierHeld |-> FALSE,
     currentHoverTarget |-> NoElement,
     inspectDebounceTimer |-> NoElement,
     cursor |-> "",
     overlay |-> [display |-> FALSE, at |-> NoElement],
     tooltip |-> [display |-> FALSE, at |-> NoElement, textContent |-> <<>>],
     contextMenu |-> ContextMenuInit,
     previewPanel |-> [display |-> FALSE, of |-> NoElement]]

\* The browser around the component: the element under the pointer, the
\* last URL given to window.open, console.warn calls, rejections of
\* promises nobody handles, and the items the menu's onSelect callback was
\* called with while the last menu event was dispatched
HostInit ==
    [pointerAt |-> NoElement, opened |-> <<>>, warned |-> FALSE,
     unhandledRejection |-> FALSE, selected |-> <<>>]

\* The number of resolveSourceMap / prefetchSourceMap calls the handlers
\* of a run make
MaxUiReq == 2
UiRequests == 1..MaxUiReq

\* The first free call number, 0 when there is none
FreeSlot(rq) ==
    IF \A r \in UiRequests : rq[r].pc # "idle" THEN 0
    ELSE CHOOSE r \in UiRequests :
             /\ rq[r].pc = "idle"
             /\ \A q \in UiRequests : rq[q].pc = "idle" => r <= q

\* A value and the state it was computed in
Outcome(s, res) == [s |-> s, res |-> res]

\* resolveSourceMap(u, l, col, cache) called as call r
SourceMapCallAt(s, r, u, l, col, origin) ==
    IF r = 0 THEN [s EXCEPT !.ok = FALSE]
    ELSE [s EXCEPT !.req[r] = ResolveCall(s.cache, s.req, r, u, l, col, origin),
                   !.fetches = FetchesAfterCall(s.cache, s.fetches, u)]

\* prefetchSourceMap(u, cache) called as call r
PrefetchCallAt(s, r, u, origin) ==
    IF r = 0 THEN [s EXCEPT !.ok = FALSE]
    ELSE [s EXCEPT !.req[r] = PrefetchCall(s.cache, s.req, r, u, origin),
                   !.fetches = FetchesAfterCall(s.cache, s.fetches, u)]

\* The promise of call r as its caller sees it
CallOutcome(s, r) ==
    IF r = 0 THEN Outcome(s, Pending) ELSE Outcome(s, s.req[r].result)

\* Lines 88-93: `return resolveSourceMap(...)`
ComponentSourceMapCall(s, r, frame, origin) ==
    CallOutcome(SourceMapCallAt(s, r, UnitOfUrl(frame.chunkUrl), frame.line,
                                frame.column, origin), r)

\* resolveComponentSource(fiber, cache, projectRoot, element): the value
\* its promise settles to at once, or Pending with the call in flight
ComponentSourcePlanned(s, plan, origin) ==
    IF plan.sync THEN Outcome(s, plan.value)
    ELSE ComponentSourceMapCall(s, FreeSlot(s.req), plan.frame, origin)

ComponentSourceCall(s, fiber, element, origin) ==
    ComponentSourcePlanned(s, resolveComponentSource(doc, fiber, element),
                           origin)

\* positionOverlay(elements, target, componentName)
positionOverlay(u, target, componentName) ==
    [u EXCEPT !.overlay = [display |-> TRUE, at |-> target],
              !.tooltip = IF componentName # <<>>
                          THEN [display |-> TRUE, at |-> target,
                                textContent |-> NameText(componentName)]
                          ELSE [@ EXCEPT !.display = FALSE]]

\* The listeners without the one of showContextMenu call `id`
RECURSIVE RemoveListener(_, _)
RemoveListener(listeners, id) ==
    IF listeners = <<>> THEN <<>>
    ELSE IF listeners[1].id = id THEN RemoveListener(Tail(listeners), id)
    ELSE <<listeners[1]>> \o RemoveListener(Tail(listeners), id)

\* hideContextMenu(elements): the rows are dropped and the listener named
\* by _keydownHandler, if any, is removed
hideContextMenu(cm) ==
    [cm EXCEPT !.display = FALSE,
               !.rows = <<>>,
               !.listeners = IF cm.keydownHandler # 0
                             THEN RemoveListener(@, cm.keydownHandler)
                             ELSE @,
               !.keydownHandler = 0]

\* Lines 465-506: the row of an item; item.filePath is not set when the
\* menu is built, so the row has no path span yet
MenuRow(item) == [name |-> NameText(item.name), path |-> <<>>]

\* showContextMenu(elements, x, y, items, onSelect)
showContextMenu(cm, items) ==
    [cm EXCEPT !.display = TRUE,
               !.rows = [i \in 1..Len(items) |-> MenuRow(items[i])],
               !.listeners = Append(@, [id |-> cm.shows + 1, items |-> items,
                                        focusedIndex |-> -1]),
               !.keydownHandler = cm.shows + 1,
               !.shows = cm.shows + 1]

\* updateContextMenuItem(elements, index, item) with item.filePath and
\* item.line as given
updateContextMenuItem(cm, index, filePath, line) ==
    IF index + 1 > Len(cm.rows) THEN cm
    ELSE IF filePath = <<>> THEN cm
    ELSE [cm EXCEPT !.rows[index + 1].path =
              filePath \o <<":">> \o NumberToString(line)]

\* The common part of handleKeyUp and handleBlur without clearTimeout
HideAllKeepTimer(u) ==
    [u EXCEPT !.isModifierHeld = FALSE,
              !.overlay.display = FALSE,
              !.tooltip.display = FALSE,
              !.contextMenu = hideContextMenu(@),
              !.previewPanel.display = FALSE,
              !.cursor = ""]

\* hideOverlay, hideContextMenu, hidePreviewPanel, clearTimeout: the common
\* part of handleKeyUp and handleBlur
HideAll(u) ==
    [u EXCEPT !.isModifierHeld = FALSE,
              !.overlay.display = FALSE,
              !.tooltip.display = FALSE,
              !.contextMenu = hideContextMenu(@),
              !.previewPanel.display = FALSE,
              !.inspectDebounceTimer = NoElement,
              !.cursor = ""]

\* Lines 185-200: the callbacks on the promise of the hover resolution
HoverSettled(s, target, componentFiber, resolved) ==
    IF resolved.tag = "rejected" THEN s
    ELSE IF s.ui.currentHoverTarget # target THEN s
    ELSE IF resolved = Null THEN s
    ELSE [s EXCEPT !.ui.tooltip.textContent =
              LocatedText(getComponentName(doc.fibers, componentFiber),
                          toRelativePath(resolved.filePath, props.projectRoot,
                                         envRoot),
                          resolved.originalLine)]

HoverOrigin(target, componentFiber) ==
    [by |-> "hover", target |-> target, index |-> componentFiber]

HoverResolved(out, target, componentFiber) ==
    IF out.res = Pending THEN out.s
    ELSE HoverSettled(out.s, target, componentFiber, out.res)

\* Lines 203-212: the debounce timer is replaced
HoverTimer(s, target) ==
    IF props.showPreview
    THEN [s EXCEPT !.ui.inspectDebounceTimer = target]
    ELSE s

\* Lines 181-215
HoverNamed(s, target, componentFiber, name) ==
    IF name # <<>> /\ componentFiber # 0
    THEN HoverTimer(
             HoverResolved(
                 ComponentSourceCall(
                     [s EXCEPT !.ui.currentHoverTarget = target],
                     componentFiber, target,
                     HoverOrigin(target, componentFiber)),
                 target, componentFiber),
             target)
    ELSE IF props.showPreview
         THEN [s EXCEPT !.ui.previewPanel.display = FALSE]
         ELSE s

\* Lines 173-178
HoverComponent(s, target, componentFiber) ==
    HoverNamed([s EXCEPT !.ui = positionOverlay(
                                    @, target,
                                    getComponentName(doc.fibers, componentFiber))],
               target, componentFiber,
               getComponentName(doc.fibers, componentFiber))

\* handleMouseMove(e), target = document.elementFromPoint(...)
handleMouseMove(s, target) ==
    IF ~s.ui.isModifierHeld THEN s
    ELSE IF s.ui.contextMenu.display THEN s
    ELSE IF target = NoElement THEN s
    ELSE HoverComponent(
             s, target,
             IF getFiberFromElement(doc, target) # 0
             THEN findNearestComponentFiber(doc.fibers,
                                            getFiberFromElement(doc, target))
             ELSE 0)

\* The callback of the debounce timer (lines 205-211)
TimerCallback(s, target) ==
    IF s.ui.currentHoverTarget # target
    THEN [s EXCEPT !.ui.inspectDebounceTimer = NoElement]
    ELSE [s EXCEPT !.ui.inspectDebounceTimer = NoElement,
                   !.ui.previewPanel =
                       [display |-> doc.fibers[
                            findNearestComponentFiber(
                                doc.fibers,
                                getFiberFromElement(doc, target))].inspectable,
                        of |-> target]]

\* Lines 137-141: prefetchSourceMap for every URL, in the set's order
RECURSIVE PrefetchAll(_, _, _)
PrefetchAll(s, urls, k) ==
    IF k > Len(urls) THEN s
    ELSE PrefetchAll(PrefetchCallAt(s, FreeSlot(s.req), UnitOfUrl(urls[k]),
                                    [by |-> "keydown", target |-> NoElement,
                                     index |-> 0]),
                     urls, k + 1)

\* The limit collectVisibleChunkUrls() is called with by default
DefaultLimit == 50

\* handleKeyDown(e)
handleKeyDown(s, key) ==
    IF key = ModifierKeyOf(props.modifier)
    THEN PrefetchAll([s EXCEPT !.ui.isModifierHeld = TRUE,
                               !.ui.cursor = "crosshair"],
                     collectVisibleChunkUrls(doc, DefaultLimit), 1)
    ELSE s

\* handleKeyUp(e)
handleKeyUp(s, key) ==
    IF key = ModifierKeyOf(props.modifier)
    THEN [s EXCEPT !.ui = HideAll(@)]
    ELSE s

\* handleBlur()
handleBlur(s) == [s EXCEPT !.ui = HideAll(@)]

\* Lines 268-278: the end of handleClick
ClickOpen(s, resolved) ==
    IF resolved # Null
    THEN [s EXCEPT !.host.opened =
              buildEditorUrl(props.editor, resolved.filePath,
                             resolved.originalLine, resolved.originalColumn)]
    ELSE [s EXCEPT !.host.warned = TRUE]

\* An `await` of handleClick that rejects: the handler has no try/catch and
\* the event dispatcher drops the promise it returns
ClickRejected(s) == [s EXCEPT !.host.unhandledRejection = TRUE]

\* handleClick after its second await (lines 259-278)
ClickAfterSecond(s, resolved) ==
    IF resolved.tag = "rejected" THEN ClickRejected(s)
    ELSE ClickOpen(s, resolved)

ClickSecondResolved(out) ==
    IF out.res = Pending THEN out.s ELSE ClickAfterSecond(out.s, out.res)

\* Lines 256-266
ClickRetry(s, target, componentFiber) ==
    IF componentFiber # 0
    THEN ClickSecondResolved(
             ComponentSourceCall(s, componentFiber, target,
                                 [by |-> "click2", target |-> target,
                                  index |-> componentFiber]))
    ELSE ClickOpen(s, Null)

\* handleClick after its first await (lines 250-278)
ClickAfterFirst(s, target, fiber, resolved) ==
    IF resolved.tag = "rejected" THEN ClickRejected(s)
    ELSE IF resolved # Null THEN ClickOpen(s, resolved)
    ELSE ClickRetry(s, target, findNearestComponentFiber(doc.fibers, fiber))

ClickFirstResolved(out, target, fiber) ==
    IF out.res = Pending THEN out.s
    ELSE ClickAfterFirst(out.s, target, fiber, out.res)

\* Lines 243-255
ClickFiber(s, target, fiber) ==
    IF fiber = 0 THEN [s EXCEPT !.host.warned = TRUE]
    ELSE ClickFirstResolved(
             ComponentSourceCall(s, fiber, target,
                                 [by |-> "click1", target |-> target,
                                  index |-> fiber]),
             target, fiber)

\* handleClick(e); target = document.elementFromPoint(...), inMenu is
\* contextMenu.container.contains(e.target)
handleClick(s, target, inMenu) ==
    IF s.ui.contextMenu.display
    THEN IF inMenu THEN s
         ELSE [s EXCEPT !.ui.contextMenu = hideContextMenu(@)]
    ELSE IF ~s.ui.isModifierHeld THEN s
    ELSE IF target = NoElement THEN s
    ELSE ClickFiber(s, target, getFiberFromElement(doc, target))

\* Lines 310-323: the callbacks on the promise of onSelect's resolution
SelectSettled(s, resolved) ==
    IF resolved.tag = "rejected" THEN [s EXCEPT !.host.warned = TRUE]
    ELSE IF resolved = Null THEN s
    ELSE [s EXCEPT !.host.opened =
              buildEditorUrl(props.editor, resolved.filePath,
                             resolved.originalLine, resolved.originalColumn)]

SelectResolved(out) ==
    IF out.res = Pending THEN out.s ELSE SelectSettled(out.s, out.res)

\* The onSelect callback handleContextMenu gives to showContextMenu (lines
\* 307-324), called with `item`
onSelect(s, item) ==
    SelectResolved(
        ComponentSourceCall([s EXCEPT !.host.selected = Append(@, item)],
                            item.fiber, NoElement,
                            [by |-> "select", target |-> NoElement,
                             index |-> item.fiber]))

\* Lines 329-336: the callbacks on the promise of the resolution for the
\* row `index`
MenuItemSettled(s, index, resolved) ==
    IF resolved.tag = "rejected" THEN s
    ELSE IF resolved # Null /\ s.ui.contextMenu.display
    THEN [s EXCEPT !.ui.contextMenu =
              updateContextMenuItem(
                  @, index,
                  toRelativePath(resolved.filePath, props.projectRoot, envRoot),
                  resolved.originalLine)]
    ELSE s

MenuItemResolved(out, index) ==
    IF out.res = Pending THEN out.s
    ELSE MenuItemSettled(out.s, index, out.res)

\* Lines 327-337: items.forEach, from item k on
RECURSIVE MenuItemsResolve(_, _, _)
MenuItemsResolve(s, items, k) ==
    IF k > Len(items) THEN s
    ELSE MenuItemsResolve(
             MenuItemResolved(
                 ComponentSourceCall(s, items[k].fiber, NoElement,
                                     [by |-> "menu", target |-> NoElement,
                                      index |-> k - 1]),
                 k - 1),
             items, k + 1)

\* Lines 297-337
MenuForAncestry(s, ancestry) ==
    IF Len(ancestry) = 0 THEN s
    ELSE MenuItemsResolve(
             [s EXCEPT !.ui.contextMenu = showContextMenu(@, ancestry)],
             ancestry, 1)

\* Lines 288-297
MenuForTarget(s, target) ==
    IF target = NoElement THEN s
    ELSE IF getFiberFromElement(doc, target) = 0 THEN s
    ELSE MenuForAncestry(
             s, collectComponentAncestry(doc.fibers,
                                         getFiberFromElement(doc, target),
                                         DefaultMaxDepth))

\* handleContextMenu(e), target = document.elementFromPoint(...)
handleContextMenu(s, target) ==
    IF ~s.ui.isModifierHeld THEN s
    ELSE MenuForTarget(
             IF props.showPreview
             THEN [s EXCEPT !.ui.previewPanel.display = FALSE]
             ELSE s,
             target)

\* The listener of showContextMenu call `id` is registered
Attached(cm, id) == \E k \in 1..Len(cm.listeners) : cm.listeners[k].id = id

\* The position of that listener among the registered ones
ListenerAt(cm, id) == CHOOSE k \in 1..Len(cm.listeners) : cm.listeners[k].id = id

\* Lines 517-535: the keydown listener of one showContextMenu call, with
\* its closure c at position k of the listeners
MenuKeyListener(s, k, c, key) ==
    IF key = "ArrowDown"
    THEN [s EXCEPT !.ui.contextMenu.listeners[k].focusedIndex =
              IF c.focusedIndex + 1 <= Len(c.items) - 1
              THEN c.focusedIndex + 1 ELSE Len(c.items) - 1]
    ELSE IF key = "ArrowUp"
    THEN [s EXCEPT !.ui.contextMenu.listeners[k].focusedIndex =
              IF c.focusedIndex - 1 >= 0 THEN c.focusedIndex - 1 ELSE 0]
    ELSE IF key = "Enter" /\ c.focusedIndex >= 0
    THEN [onSelect(s, c.items[c.focusedIndex + 1]) EXCEPT
              !.ui.contextMenu = hideContextMenu(@)]
    ELSE IF key = "Escape"
    THEN [s EXCEPT !.ui.contextMenu = hideContextMenu(@)]
    ELSE s

\* A keydown event dispatched to the container: the listeners registered
\* when the dispatch began run in registration order, and one that was
\* removed before its turn does not run
RECURSIVE DispatchKeyDown(_, _, _, _)
DispatchKeyDown(s, snapshot, k, key) ==
    IF k > Len(snapshot) THEN s
    ELSE IF ~Attached(s.ui.contextMenu, snapshot[k].id)
    THEN DispatchKeyDown(s, snapshot, k + 1, key)
    ELSE DispatchKeyDown(
             MenuKeyListener(
                 s, ListenerAt(s.ui.contextMenu, snapshot[k].id),
                 s.ui.contextMenu.listeners[
                     ListenerAt(s.ui.contextMenu, snapshot[k].id)],
                 key),
             snapshot, k + 1, key)

\* Lines 489-493: the mouseenter listener of row `index` of the menu on
\* display; focusedIndex is the variable of the showContextMenu call that
\* built the row
RowMouseEnter(s, index) ==
    [s EXCEPT !.ui.contextMenu.listeners[
                  ListenerAt(s.ui.contextMenu,
                             s.ui.contextMenu.keydownHandler)].focusedIndex =
              index]

\* Lines 497-502: the click listener of row `index` of the menu on display
RowClick(s, index) ==
    [onSelect(s, s.ui.contextMenu.listeners[
                     ListenerAt(s.ui.contextMenu,
                                s.ui.contextMenu.keydownHandler)].items[index + 1])
         EXCEPT !.ui.contextMenu = hideContextMenu(@)]

\* The callbacks that wait for call q, run when it settles
Continue(s, q) ==
    CASE q.origin.by = "hover" ->
            HoverSettled(s, q.origin.target, q.origin.index, q.result)
      [] q.origin.by = "click1" ->
            ClickAfterFirst(s, q.origin.target, q.origin.index, q.result)
      [] q.origin.by = "click2" -> ClickAfterSecond(s, q.result)
      [] q.origin.by = "select" -> SelectSettled(s, q.result)
      [] q.origin.by = "menu" -> MenuItemSettled(s, q.origin.index, q.result)
      [] OTHER -> s

ContinueIfDone(s, r) ==
    IF s.req[r].pc = "done" THEN Continue(s, s.req[r]) ELSE s

\* The state after `await fetch(...)` of call r settles with outcome o
AfterFetchState(s, r, o) ==
    [s EXCEPT !.req[r] = AfterFetch(s.req[r], o),
              !.cache = IF o = "ok" THEN s.cache
                        ELSE CacheOnFailure(s.cache, s.req[r].unit)]

\* The state after `await resp.json()` of call r settles with outcome b
AfterJsonState(s, r, b) ==
    [s EXCEPT !.req[r] = AfterJson(s.req[r], b, server[s.req[r].unit]),
              !.cache = CacheAfterJson(s.cache, s.req[r].unit, b,
                                       server[s.req[r].unit])]

\* The mutable state now, and the step to state t
Now ==
    [cache |-> cache, req |-> req, fetches |-> fetches, ui |-> ui,
     host |-> host, ok |-> TRUE]

Commit(t) ==
    /\ t.ok
    /\ cache' = t.cache
    /\ req' = t.req
    /\ fetches' = t.fetches
    /\ ui' = t.ui
    /\ host' = t.host
    /\ UNCHANGED <<server, envRoot, doc, props, probe>>

(***************************************************************************)
(* Actions of the engine                                                   *)
(***************************************************************************)

\* A caller calls resolveSourceMap(u, line, col, cache)
CallResolve(r, u, pos) ==
    /\ NextToCall(r)
    /\ req' = [req EXCEPT ![r] = ResolveCall(cache, req, r, u, pos[1], pos[2],
                                             ApiOrigin)]
    /\ fetches' = FetchesAfterCall(cache, fetches, u)
    /\ UNCHANGED <<server, envRoot, cache, doc, props, ui, host, probe>>

\* A caller calls prefetchSourceMap(u, cache)
CallPrefetch(r, u) ==
    /\ NextToCall(r)
    /\ req' = [req EXCEPT ![r] = PrefetchCall(cache, req, r, u, ApiOrigin)]
    /\ fetches' = FetchesAfterCall(cache, fetches, u)
    /\ UNCHANGED <<server, envRoot, cache, doc, props, ui, host, probe>>

\* The fetch of call r settles; if that settles the call, the callbacks
\* waiting for it run
FetchSettles(r, o) ==
    /\ req[r].pc = "fetch"
    /\ \E t \in {ContinueIfDone(AfterFetchState(Now, r, o), r)} : Commit(t)

\* resp.json() of call r settles, the call runs to its end and the
\* callbacks waiting for it run
JsonSettles(r, b) ==
    /\ req[r].pc = "json"
    /\ \E t \in {ContinueIfDone(AfterJsonState(Now, r, b), r)} : Commit(t)

InitEngine ==
    /\ server = ServerFixture
    /\ envRoot = EnvRootFixture
    /\ cache = [u \in Units |-> NoEntry]
    /\ req = [r \in Requests |-> IdleReq]
    /\ fetches = [u \in Units |-> 0]
    /\ doc = DocFixture
    /\ props = PropsDefault
    /\ ui = UiInit
    /\ host = HostInit
    /\ probe = NoProbe

vars == <<server, envRoot, cache, req, fetches, doc, props, ui, host, probe>>

Init == InitEngine

Next ==
    \/ \E r \in Requests, u \in Units, pos \in Positions : CallResolve(r, u, pos)
    \/ \E r \in Requests, u \in Units : CallPrefetch(r, u)
    \/ \E r \in Requests, o \in FetchOutcomes : FetchSettles(r, o)
    \/ \E r \in Requests, b \in JsonOutcomes : JsonSettles(r, b)

Spec == Init /\ [][Next]_vars

(***************************************************************************)
(* Sequential callers: a call is made only when no call is in flight       *)
(***************************************************************************)

NoneInFlight == \A q \in Requests : req[q].pc \in {"idle", "done"}

NextSeq ==
    \/ \E r \in Requests, u \in Units, pos \in Positions :
          NoneInFlight /\ CallResolve(r, u, pos)
    \/ \E r \in Requests, u \in Units : NoneInFlight /\ CallPrefetch(r, u)
    \/ \E r \in Requests, o \in FetchOutcomes : FetchSettles(r, o)
    \/ \E r \in Requests, b \in JsonOutcomes : JsonSettles(r, b)

SpecSeq == Init /\ [][NextSeq]_vars

(***************************************************************************)
(* The resolver over every small sectioned map: the server serves one of   *)
(* the section lists below, a first call fetches (or fails to), a second   *)
(* call finds the cache as the first left it.                              *)
(***************************************************************************)

\* Sections per served map, largest line offset, largest queried line
MaxSections == 3
MaxOffset == 2
MaxLine == 3

\* The source name of the i-th section of a served map: "/s1.tsx" ...
SelSourceName(i) == <<"/", "s", ToString(i)>>

\* The mappings of every section of a served map: line 0 maps column 0 to
\* original line 1 column 0, line 1 maps column 5 to original line 4 column 7
SelMappings == <<"A","A","A","A",";","K","A","G","O">>

\* Offsets, in non-decreasing order, of the sections of a served map
SelOffsetLists ==
    UNION {{os \in [1..n -> 0..MaxOffset] :
               \A i \in 1..n, j \in 1..n : i <= j => os[i] <= os[j]} :
           n \in 0..MaxSections}

\* The served maps: every list over the offsets above, and the map with
\* offsets 0, 50, 120
SelPayloads ==
    UNION {{[i \in 1..Len(os) |->
               [offsetLine |-> os[i],
                sources |-> IF withSource[i] THEN <<SelSourceName(i)>> ELSE <<>>,
                mappings |-> SelMappings]] :
            withSource \in [1..Len(os) -> BOOLEAN]} :
           os \in SelOffsetLists}
    \cup {SectionsU1}

SelPositions == {<<l, 0>> : l \in 0..MaxLine} \cup {<<75, 6>>}
SelRequests == {1, 2}

InitSel ==
    /\ server \in {[u \in Units |-> p] : p \in SelPayloads}
    /\ envRoot = EnvRootFixture
    /\ cache = [u \in Units |-> NoEntry]
    /\ req = [r \in Requests |-> IdleReq]
    /\ fetches = [u \in Units |-> 0]
    /\ doc = DocFixture
    /\ props = PropsDefault
    /\ ui = UiInit
    /\ host = HostInit
    /\ probe = NoProbe

NextSel ==
    \/ \E r \in SelRequests, pos \in SelPositions :
          NoneInFlight /\ CallResolve(r, "u1", pos)
    \/ \E r \in SelRequests : NoneInFlight /\ CallPrefetch(r, "u1")
    \/ \E r \in SelRequests, o \in FetchOutcomes : FetchSettles(r, o)
    \/ \E r \in SelRequests, b \in JsonOutcomes : JsonSettles(r, b)

SpecSel == InitSel /\ [][NextSel]_vars

(***************************************************************************)
(* The Locator on a page: key, pointer, click, blur and timer events, and  *)
(* the retrievals its handlers start                                       *)
(***************************************************************************)

\* The keys that are pressed and released
Keys == {"Alt", "Shift"}

\* keydown
KeyDown(key) ==
    \E t \in {handleKeyDown(Now, key)} : Commit(t)

\* keyup
KeyUp(key) ==
    \E t \in {handleKeyUp(Now, key)} : Commit(t)

\* window blur
Blur ==
    \E t \in {handleBlur(Now)} : Commit(t)

\* mousemove with the pointer over target: a mousemove is dispatched with
\* coordinates inside the viewport, where elementFromPoint finds an element
MouseMove(target) ==
    \E t \in {handleMouseMove([Now EXCEPT !.host.pointerAt = target], target)} :
        Commit(t)

\* click where the pointer is
Click(inMenu) ==
    \E t \in {handleClick(Now, host.pointerAt, inMenu)} : Commit(t)

\* How often a run shows the hierarchy menu
MaxShows == 2

\* contextmenu (right click) where the pointer is
ContextMenu ==
    /\ ui.isModifierHeld => ui.contextMenu.shows < MaxShows
    /\ \E t \in {handleContextMenu(Now, host.pointerAt)} : Commit(t)

\* The 150 ms debounce timer fires
TimerFires ==
    /\ ui.inspectDebounceTimer # NoElement
    /\ \E t \in {TimerCallback(Now, ui.inspectDebounceTimer)} : Commit(t)

InitUI ==
    /\ server = ServerFixture
    /\ envRoot = EnvRootFixture
    /\ cache = [u \in Units |-> NoEntry]
    /\ req = [r \in Requests |-> IdleReq]
    /\ fetches = [u \in Units |-> 0]
    /\ doc = DocFixture
    /\ props \in {PropsDefault, PropsWebstorm}
    /\ ui = UiInit
    /\ host = HostInit
    /\ probe = NoProbe

NextUI ==
    \/ \E key \in Keys : KeyDown(key)
    \/ \E key \in Keys : KeyUp(key)
    \/ Blur
    \/ \E target \in Elements : MouseMove(target)
    \/ \E inMenu \in BOOLEAN : Click(inMenu)
    \/ ContextMenu
    \/ TimerFires
    \/ \E r \in UiRequests, o \in FetchOutcomes : FetchSettles(r, o)
    \/ \E r \in UiRequests, b \in JsonOutcomes : JsonSettles(r, b)

SpecUI == InitUI /\ [][NextUI]_vars

(***************************************************************************)
(* resolveComponentSource over every small debug handle: the element e1    *)
(* with or without a baked location, its fiber with or without a record    *)
(* and a stack, the owning component with or without a stack               *)
(***************************************************************************)

AttrChoices ==
    {NoAttr,
     Attr(ResolvedSource(<<"/","a","t","t","r","/","X",".","t","s","x">>, 3, 1))}

DebugSourceChoices ==
    {NoDebugSource,
     [has |-> TRUE, fileName |-> <<>>, lineNumber |-> Num(9),
      columnNumber |-> NoNumber],
     [has |-> TRUE, fileName |-> <<"/","r","e","c","/","Y",".","t","s","x">>,
      lineNumber |-> Num(9), columnNumber |-> NoNumber]}

StackChoices == {NoDebugStack, DebugStack(StackInternal), DebugStack(StackInU1)}

OwnerStackChoices == {NoDebugStack, DebugStack(StackInU2)}

\* The document with e1 carrying fiber 2, owned by the component fiber 1
ChainDoc(attr, debugSource, debugStack, ownerStack) ==
    [order |-> <<"e1", "e2", "e3">>,
     fiberOf |-> [e \in Elements |-> IF e = "e1" THEN 2 ELSE 0],
     attr |-> [e \in Elements |-> IF e = "e1" THEN attr ELSE NoAttr],
     fibers |->
        << [tag |-> 0, return |-> 0, type |-> NamedType(<<"A">>),
            debugSource |-> NoDebugSource, debugStack |-> ownerStack,
            inspectable |-> TRUE],
           [tag |-> 5, return |-> 1, type |-> HostType,
            debugSource |-> debugSource, debugStack |-> debugStack,
            inspectable |-> FALSE] >>]

\* The caller's record of a call that settled without resolveSourceMap
ComponentCallRecorded(out, r, origin) ==
    IF r = 0 THEN out.s
    ELSE IF out.s.req[r].pc # "idle" THEN out.s
    ELSE [out.s EXCEPT !.req[r] =
              [IdleReq EXCEPT !.pc = "done", !.kind = "component",
                              !.result = out.res, !.origin = origin,
                              !.prior = Settled(out.s.req)]]

\* A caller calls resolveComponentSource(fiber, cache, projectRoot, element)
CallResolveComponent(fiber, element) ==
    /\ FreeSlot(req) # 0
    /\ \E t \in {ComponentCallRecorded(
                     ComponentSourceCall(Now, fiber, element,
                                         [by |-> "api", target |-> element,
                                          index |-> fiber]),
                     FreeSlot(req),
                     [by |-> "api", target |-> element, index |-> fiber])} :
          Commit(t)

InitChain ==
    /\ server = ServerFixture
    /\ envRoot = EnvRootFixture
    /\ cache = [u \in Units |-> NoEntry]
    /\ req = [r \in Requests |-> IdleReq]
    /\ fetches = [u \in Units |-> 0]
    /\ doc \in {ChainDoc(a, ds, st, os) :
                   a \in AttrChoices, ds \in DebugSourceChoices,
                   st \in StackChoices, os \in OwnerStackChoices}
    /\ props = PropsDefault
    /\ ui = UiInit
    /\ host = HostInit
    /\ probe = NoProbe

NextChain ==
    \/ \E fiber \in {1, 2}, element \in {"e1", NoElement} :
          CallResolveComponent(fiber, element)
    \/ \E r \in UiRequests, o \in FetchOutcomes : FetchSettles(r, o)
    \/ \E r \in UiRequests, b \in JsonOutcomes : JsonSettles(r, b)

SpecChain == InitChain /\ [][NextChain]_vars

(***************************************************************************)
(* The resolver over drawn source names: the served map has one section at *)
(* offset 0 whose first source is one of the names below, and the root of  *)
(* the environment is set or not                                           *)
(***************************************************************************)

\* The beginnings and the ends the drawn source names are made of
PathNameHeads ==
    { <<>>,
      FILE_PREFIX,
      TURBOPACK_PREFIX,
      TURBOPACK_PROJECT,
      TURBOPACK_PREFIX \o <<"x","/">> \o TURBOPACK_PROJECT }
PathNameRests ==
    { <<>>,
      <<"/","a",".","t","s">>,
      <<"s","r","c","/","a",".","t","s">>,
      <<"U","s","e","r","s","/","a",".","t","s">>,
      <<"h","o","m","e","/","a",".","t","s">>,
      <<"s","r","c","/","a","\n","b",".","t","s">> }
PathNames == {h \o t : h \in PathNameHeads, t \in PathNameRests}

PathPayload(name) ==
    << [offsetLine |-> 0, sources |-> <<name>>, mappings |-> SelMappings] >>

InitPath ==
    /\ server \in {[u \in Units |-> PathPayload(name)] : name \in PathNames}
    /\ envRoot \in {Undefined, EnvRootFixture}
    /\ cache = [u \in Units |-> NoEntry]
    /\ req = [r \in Requests |-> IdleReq]
    /\ fetches = [u \in Units |-> 0]
    /\ doc = DocFixture
    /\ props = PropsDefault
    /\ ui = UiInit
    /\ host = HostInit
    /\ probe = NoProbe

NextPath ==
    \/ \E r \in SelRequests : NoneInFlight /\ CallResolve(r, "u1", <<0, 0>>)
    \/ \E r \in SelRequests, o \in FetchOutcomes : FetchSettles(r, o)
    \/ \E r \in SelRequests, b \in JsonOutcomes : JsonSettles(r, b)

SpecPath == InitPath /\ [][NextPath]_vars

(***************************************************************************)
(* decodeVLQSegment called directly on one of the short segments           *)
(***************************************************************************)

\* The longest drawn segment
MaxSegmentLen == 3

\* The characters of the drawn segments: digits 0, 1, 6, 7 (one group), 32,
\* 33, 63 (continuation set) and a character outside the alphabet
VlqChars == {"A", "B", "G", "H", "g", "h", "/", "!"}

\* Two longer segments with one token each: raw value 2^30, which fits in
\* 31 bits, and raw value 2^31, which does not
LongSegments ==
    { <<"g","g","g","g","g","g","B">>, <<"g","g","g","g","g","g","C">> }

VlqSegments ==
    UNION {[1..n -> VlqChars] : n \in 0..MaxSegmentLen} \cup LongSegments

\* A caller is about to call decodeVLQSegment(segment)
SegmentCall(segment) ==
    [fn |-> "decodeVLQSegment", pc |-> "call", segment |-> segment,
     result |-> [ok |-> FALSE, values |-> <<>>]]

\* decodeVLQSegment(segment) runs and returns
CallDecodeVLQSegment ==
    /\ probe.fn = "decodeVLQSegment"
    /\ probe.pc = "call"
    /\ probe' = [probe EXCEPT !.pc = "return",
                              !.result = decodeVLQSegment(probe.segment)]
    /\ UNCHANGED <<server, envRoot, cache, req, fetches, doc, props, ui, host>>

InitVlq ==
    /\ server = ServerFixture
    /\ envRoot = EnvRootFixture
    /\ cache = [u \in Units |-> NoEntry]
    /\ req = [r \in Requests |-> IdleReq]
    /\ fetches = [u \in Units |-> 0]
    /\ doc = DocFixture
    /\ props = PropsDefault
    /\ ui = UiInit
    /\ host = HostInit
    /\ probe \in {SegmentCall(segment) : segment \in VlqSegments}

NextVlq == CallDecodeVLQSegment

SpecVlq == InitVlq /\ [][NextVlq]_vars

(***************************************************************************)
(* decodeOriginalPosition called directly on one of the short mappings     *)
(* strings: a drawn list of items, each a segment or a line break          *)
(***************************************************************************)

\* The longest drawn list of items, the largest target line and the target
\* columns
MaxItems == 4
MaxTargetLine == 2
TargetColumns == {0, 2, 6}

\* The segments: k, c and d decode to four values, s to two (too short),
\* x holds an unknown character and e is the empty segment
SegmentKinds == {"k", "c", "d", "s", "x", "e"}
LineBreak == ";"

SegmentText(kind) ==
    CASE kind = "k" -> <<"K","A","G","O">>
      [] kind = "c" -> <<"C","A","C","C">>
      [] kind = "d" -> <<"D","A","D","D">>
      [] kind = "s" -> <<"A","A">>
      [] kind = "x" -> <<"K","!","G","O">>
      [] kind = "e" -> <<>>

MappingItems ==
    UNION {[1..n -> SegmentKinds \cup {LineBreak}] : n \in 0..MaxItems}

\* The mappings string of a list of items: segments of one line are joined
\* by ',' and lines by ';'
RECURSIVE MappingsText(_, _)
MappingsText(items, i) ==
    IF i > Len(items) THEN <<>>
    ELSE IF items[i] = LineBreak THEN <<";">> \o MappingsText(items, i + 1)
    ELSE SegmentText(items[i])
             \o (IF i < Len(items) /\ items[i + 1] # LineBreak
                 THEN <<",">> ELSE <<>>)
             \o MappingsText(items, i + 1)

\* A caller is about to call decodeOriginalPosition(mappings, targetLine,
\* targetColumn)
PositionCall(items, targetLine, targetColumn) ==
    [fn |-> "decodeOriginalPosition", pc |-> "call", items |-> items,
     mappings |-> MappingsText(items, 1), targetLine |-> targetLine,
     targetColumn |-> targetColumn,
     result |-> [isNull |-> TRUE, originalLine |-> 0, originalColumn |-> 0]]

\* decodeOriginalPosition(mappings, targetLine, targetColumn) runs and
\* returns
CallDecodeOriginalPosition ==
    /\ probe.fn = "decodeOriginalPosition"
    /\ probe.pc = "call"
    /\ probe' = [probe EXCEPT
                    !.pc = "return",
                    !.result = decodeOriginalPosition(probe.mappings,
                                                      probe.targetLine,
                                                      probe.targetColumn)]
    /\ UNCHANGED <<server, envRoot, cache, req, fetches, doc, props, ui, host>>

InitDecode ==
    /\ server = ServerFixture
    /\ envRoot = EnvRootFixture
    /\ cache = [u \in Units |-> NoEntry]
    /\ req = [r \in Requests |-> IdleReq]
    /\ fetches = [u \in Units |-> 0]
    /\ doc = DocFixture
    /\ props = PropsDefault
    /\ ui = UiInit
    /\ host = HostInit
    /\ probe \in {PositionCall(items, targetLine, targetColumn) :
                     items \in MappingItems, targetLine \in 0..MaxTargetLine,
                     targetColumn \in TargetColumns}

NextDecode == CallDecodeOriginalPosition

SpecDecode == InitDecode /\ [][NextDecode]_vars

(***************************************************************************)
(* extractStackFrame and resolveComponentSource called directly on a       *)
(* handle whose stack is one of the short stacks below                     *)
(***************************************************************************)

\* The longest drawn stack, in lines
MaxStackLines == 3

\* The lines the drawn stacks are made of
StackLineKinds ==
    {"E", "a", "b", "p", "f", "n", "g", "j", "t", "m", "w", "r", "k", "u"}

StackLineText(kind) ==
    CASE kind = "E" ->
            <<"E","r","r","o","r",":"," ","x">>
      [] kind = "a" ->
            <<" ","a","t"," ","A"," ","(","h","t","t","p",":","/","/","h","/","a",".","j","s",":","7","5",":","6",")">>
      [] kind = "b" ->
            <<" ","a","t"," ","B"," ","(","h","t","t","p","s",":","/","/","h","/","b",".","j","s",":","3",":","5",")">>
      [] kind = "p" ->
            <<" ","a","t"," ","P"," ","(","h","t","t","p",":","/","/","h",":","8","0","/","a",".","j","s",":","1",":","4",")">>
      [] kind = "f" ->
            <<" ","a","t"," ","F"," ","(","f","i","l","e",":","/","/","/","a",".","j","s",":","1",":","2",")">>
      [] kind = "n" ->
            <<" ","a","t"," ","h","t","t","p",":","/","/","h","/","a",".","j","s",":","1",":","2">>
      [] kind = "g" ->
            <<" ","a","t"," ","G"," ","(","h","t","t","p",":","/","/","h","/","a",".","j","s",":","7",")">>
      [] kind = "j" ->
            <<" ","a","t"," ","j","s","x","D","E","V"," ","(","h","t","t","p",":","/","/","h","/","r",".","j","s",":","1",":","1",")">>
      [] kind = "t" ->
            <<" ","a","t"," ","r","e","a","c","t","-","s","t","a","c","k","-","t","o","p","-","f","r","a","m","e"," ","(","h","t","t","p",":","/","/","h","/","r",".","j","s",":","1",":","1",")">>
      [] kind = "m" ->
            <<" ","a","t"," ","r","e","a","c","t","_","s","t","a","c","k","_","b","o","t","t","o","m","_","f","r","a","m","e"," ","(","h","t","t","p",":","/","/","h","/","r",".","j","s",":","1",":","1",")">>
      [] kind = "w" ->
            <<" ","a","t"," ","W"," ","(","h","t","t","p",":","/","/","h","/","r","e","a","c","t","-","d","o","m",".","j","s",":","2",":","2",")">>
      [] kind = "r" ->
            <<" ","a","t"," ","r","e","n","d","e","r","W","i","t","h","H","o","o","k","s"," ","(","h","t","t","p",":","/","/","h","/","r",".","j","s",":","1",":","1",")">>
      [] kind = "k" ->
            <<" ","a","t"," ","b","e","g","i","n","W","o","r","k"," ","(","h","t","t","p",":","/","/","h","/","r",".","j","s",":","1",":","1",")">>
      [] kind = "u" ->
            <<" ","a","t"," ","p","e","r","f","o","r","m","U","n","i","t","O","f","W","o","r","k"," ","(","h","t","t","p",":","/","/","h","/","r",".","j","s",":","1",":","1",")">>

\* The drawn stacks: absent, or the lines joined by "\n"
RECURSIVE StackText(_, _)
StackText(kinds, i) ==
    IF i > Len(kinds) THEN <<>>
    ELSE StackLineText(kinds[i])
             \o (IF i < Len(kinds) THEN <<"\n">> ELSE <<>>)
             \o StackText(kinds, i + 1)

StackKindLists == UNION {[1..n -> StackLineKinds] : n \in 0..MaxStackLines}

\* The handle whose stack is read: the host fiber 2 of e1, without a baked
\* location, a structured record or an owner stack
FrameDoc(debugStack) == ChainDoc(NoAttr, NoDebugSource, debugStack, NoDebugStack)

\* A caller is about to call extractStackFrame(fiber._debugStack) and
\* resolveComponentSource(fiber, cache, projectRoot, element)
FrameCall(present, kinds) ==
    [fn |-> "extractStackFrame", pc |-> "call", present |-> present,
     kinds |-> kinds,
     debugStack |-> IF present THEN DebugStack(StackText(kinds, 1))
                    ELSE NoDebugStack,
     result |-> NoFrame, plan |-> ReturnNow(Null)]

\* extractStackFrame runs and returns; resolveComponentSource runs up to its
\* return or its call of resolveSourceMap
CallExtractStackFrame ==
    /\ probe.fn = "extractStackFrame"
    /\ probe.pc = "call"
    /\ probe' = [probe EXCEPT
                    !.pc = "return",
                    !.result = extractStackFrame(probe.debugStack),
                    !.plan = resolveComponentSource(FrameDoc(probe.debugStack),
                                                    2, "e1")]
    /\ UNCHANGED <<server, envRoot, cache, req, fetches, doc, props, ui, host>>

InitFrame ==
    /\ server = ServerFixture
    /\ envRoot = EnvRootFixture
    /\ cache = [u \in Units |-> NoEntry]
    /\ req = [r \in Requests |-> IdleReq]
    /\ fetches = [u \in Units |-> 0]
    /\ doc = DocFixture
    /\ props = PropsDefault
    /\ ui = UiInit
    /\ host = HostInit
    /\ probe \in {FrameCall(TRUE, kinds) : kinds \in StackKindLists}
                     \cup {FrameCall(FALSE, <<>>)}

NextFrame == CallExtractStackFrame

SpecFrame == InitFrame /\ [][NextFrame]_vars

(***************************************************************************)
(* resolveComponentSource over every small owner chain: the host fiber 4   *)
(* of e1 inside the host fiber 3, rendered by the component 2, which is    *)
(* rendered by the component 1; each with or without a stack frame         *)
(***************************************************************************)

OwnerChainStacks == {NoDebugStack, DebugStack(StackInternal), DebugStack(StackInU2)}
OuterStacks == {NoDebugStack, DebugStack(StackInU1)}
HandleStacks == {NoDebugStack, DebugStack(StackInternal), DebugStack(StackInU1)}

OwnerDoc(handleStack, ownerTag, ownerStack, outerStack) ==
    [order |-> <<"e1", "e2", "e3">>,
     fiberOf |-> [e \in Elements |-> IF e = "e1" THEN 4 ELSE 0],
     attr |-> [e \in Elements |-> NoAttr],
     fibers |->
        << [tag |-> 0, return |-> 0, type |-> NamedType(<<"A">>),
            debugSource |-> NoDebugSource, debugStack |-> outerStack,
            inspectable |-> TRUE],
           [tag |-> ownerTag, return |-> 1, type |-> NamedType(<<"B">>),
            debugSource |-> NoDebugSource, debugStack |-> ownerStack,
            inspectable |-> TRUE],
           HostFiber(2, NoDebugStack),
           HostFiber(3, handleStack) >>]

InitOwner ==
    /\ server = ServerFixture
    /\ envRoot = EnvRootFixture
    /\ cache = [u \in Units |-> NoEntry]
    /\ req = [r \in Requests |-> IdleReq]
    /\ fetches = [u \in Units |-> 0]
    /\ doc \in {OwnerDoc(hs, tag, os, xs) :
                   hs \in HandleStacks, tag \in {0, 1},
                   os \in OwnerChainStacks, xs \in OuterStacks}
    /\ props = PropsDefault
    /\ ui = UiInit
    /\ host = HostInit
    /\ probe = NoProbe

NextOwner ==
    \/ \E fiber \in 1..4 : CallResolveComponent(fiber, NoElement)
    \/ \E r \in UiRequests, o \in FetchOutcomes : FetchSettles(r, o)
    \/ \E r \in UiRequests, b \in JsonOutcomes : JsonSettles(r, b)

SpecOwner == InitOwner /\ [][NextOwner]_vars

(***************************************************************************)
(* The loops of fiber.ts taken one iteration at a time, on handles whose   *)
(* return chain may be malformed: findNearestComponentFiber and            *)
(* collectComponentAncestry over every tree of three fibers, cyclic ones   *)
(* included, and the scan of collectVisibleChunkUrls.  The recursive       *)
(* operator findNearestComponentFiber above is the same loop run to its    *)
(* end; it is only applied to acyclic documents.                           *)
(***************************************************************************)

WalkFibers == {1, 2, 3}
WalkTags == {0, 5}

\* Fiber k of a drawn tree: a function component named by its index, or a
\* host fiber
WalkFiber(tag, return, k) ==
    [tag |-> tag, return |-> return,
     type |-> IF tag = 0 THEN NamedType(<<Digits[k + 1]>>) ELSE HostType,
     debugSource |-> NoDebugSource, debugStack |-> NoDebugStack,
     inspectable |-> FALSE]

WalkDoc(tags, returns) ==
    [order |-> <<"e1", "e2", "e3">>,
     fiberOf |-> [e \in Elements |-> IF e = "e1" THEN 1 ELSE 0],
     attr |-> [e \in Elements |-> NoAttr],
     fibers |-> [k \in WalkFibers |-> WalkFiber(tags[k], returns[k], k)]]

WalkDocs ==
    {WalkDoc(tags, returns) :
        tags \in [WalkFibers -> WalkTags],
        returns \in [WalkFibers -> WalkFibers \cup {0}]}

\* A caller has entered one of the two walks with `fiber`
WalkCall(fn, fiber, maxDepth) ==
    [fn |-> fn, pc |-> "loop", fiber |-> fiber, current |-> fiber,
     depth |-> 0, maxDepth |-> maxDepth, ancestors |-> <<>>, turn |-> 0,
     result |-> 0]

\* One evaluation of `while (current)` in findNearestComponentFiber, with
\* the body when the condition holds and `return null` when it does not;
\* `turn` is the parity of the iterations run, so that an iteration over a
\* fiber that is its own parent is a step like any other
FindNearestLoop ==
    /\ probe.fn = "findNearestComponentFiber"
    /\ probe.pc = "loop"
    /\ probe' =
          IF probe.current = 0
          THEN [probe EXCEPT !.pc = "return", !.result = 0]
          ELSE IF doc.fibers[probe.current].tag = 0
                  \/ doc.fibers[probe.current].tag = 1
          THEN [probe EXCEPT !.pc = "return", !.result = probe.current]
          ELSE [probe EXCEPT !.current = doc.fibers[probe.current].return,
                             !.turn = 1 - probe.turn]
    /\ UNCHANGED <<server, envRoot, cache, req, fetches, doc, props, ui, host>>

\* The entry pushed by collectComponentAncestry for `current`, if any
AncestryPush(fibers, ancestors, current) ==
    IF (fibers[current].tag = 0 \/ fibers[current].tag = 1)
       /\ getComponentName(fibers, current) # <<>>
    THEN Append(ancestors, [fiber |-> current,
                            name |-> getComponentName(fibers, current)])
    ELSE ancestors

\* One evaluation of `while (current && depth < maxDepth)` in
\* collectComponentAncestry, with the body or `return ancestors`
CollectAncestryLoop ==
    /\ probe.fn = "collectComponentAncestry"
    /\ probe.pc = "loop"
    /\ probe' =
          IF probe.current # 0 /\ probe.depth < probe.maxDepth
          THEN [probe EXCEPT
                   !.ancestors = AncestryPush(doc.fibers, probe.ancestors,
                                              probe.current),
                   !.current = doc.fibers[probe.current].return,
                   !.depth = probe.depth + 1]
          ELSE [probe EXCEPT !.pc = "return"]
    /\ UNCHANGED <<server, envRoot, cache, req, fetches, doc, props, ui, host>>

\* Documents for the scan of collectVisibleChunkUrls: each of the three
\* elements carries no fiber ("n"), a fiber without a stack ("f"), with a
\* React-internal frame only ("i"), or with a user frame in u1 or u2
ScanKinds == {"n", "f", "i", "u1", "u2"}

ScanStack(kind) ==
    CASE kind = "i" -> DebugStack(StackInternal)
      [] kind = "u1" -> DebugStack(StackInU1)
      [] kind = "u2" -> DebugStack(StackInU2)
      [] OTHER -> NoDebugStack

ScanDoc(kinds) ==
    [order |-> <<"e1", "e2", "e3">>,
     fiberOf |-> [e \in Elements |->
                    IF kinds[e] = "n" THEN 0
                    ELSE IF e = "e1" THEN 1 ELSE IF e = "e2" THEN 2 ELSE 3],
     attr |-> [e \in Elements |-> NoAttr],
     fibers |-> << HostFiber(0, ScanStack(kinds["e1"])),
                   HostFiber(0, ScanStack(kinds["e2"])),
                   HostFiber(0, ScanStack(kinds["e3"])) >>]

ScanDocs == {ScanDoc(kinds) : kinds \in [Elements -> ScanKinds]}

ScanLimits == {1, 2, DefaultLimit}

\* A caller has entered collectVisibleChunkUrls(limit); `node` is the
\* position of the tree walker in document order
ScanCall(limit) ==
    [fn |-> "collectVisibleChunkUrls", pc |-> "loop", limit |-> limit,
     node |-> 1, urls |-> <<>>, count |-> 0, examined |-> <<>>,
     result |-> <<>>]

\* Lines 196-203: the body of the scan for the element at `node`
ScanBodyFrame(p, stackInfo) ==
    IF /\ ~stackInfo.isNull
       /\ \A j \in 1..Len(p.urls) : p.urls[j] # stackInfo.chunkUrl
    THEN [p EXCEPT !.urls = Append(@, stackInfo.chunkUrl), !.count = @ + 1]
    ELSE p

ScanBody(p, d) ==
    IF getFiberFromElement(d, d.order[p.node]) = 0 THEN p
    ELSE ScanBodyFrame(
             p, extractStackFrame(
                    d.fibers[getFiberFromElement(d, d.order[p.node])].debugStack))

\* One evaluation of `while (node && count < limit)` with the body and
\* walker.nextNode(), or `return urls`; `examined` lists the elements the
\* body ran for
ScanLoop ==
    /\ probe.fn = "collectVisibleChunkUrls"
    /\ probe.pc = "loop"
    /\ probe' =
          IF probe.node <= Len(doc.order) /\ probe.count < probe.limit
          THEN [ScanBody(probe, doc) EXCEPT
                   !.node = probe.node + 1,
                   !.examined = Append(probe.examined, doc.order[probe.node])]
          ELSE [probe EXCEPT !.pc = "return", !.result = probe.urls]
    /\ UNCHANGED <<server, envRoot, cache, req, fetches, doc, props, ui, host>>

\* The structured records a handle may carry: absent, with an empty or a
\* non-empty fileName (a bundler name included), with and without line and
\* column, zero included
RecordFileNames ==
    { <<>>, <<"/","r","e","c","/","Y",".","t","s","x">>,
      TURBOPACK_PREFIX \o TURBOPACK_PROJECT \o <<"s","r","c","/","a",".","t","s">> }
RecordNumbers == {NoNumber, Num(0), Num(9)}
DebugSourceRecords ==
    {NoDebugSource} \cup
    {[has |-> TRUE, fileName |-> f, lineNumber |-> l, columnNumber |-> c] :
        f \in RecordFileNames, l \in RecordNumbers, c \in RecordNumbers}

\* A caller is about to call extractDebugSource(fiber); fiber 0 is null,
\* fiber 2 the handle of e1 with the record
DebugSourceCall(fiber) ==
    [fn |-> "extractDebugSource", pc |-> "call", fiber |-> fiber,
     result |-> Null]

CallExtractDebugSourceOf ==
    /\ probe.fn = "extractDebugSource"
    /\ probe.pc = "call"
    /\ probe' = [probe EXCEPT
                    !.pc = "return",
                    !.result = extractDebugSource(doc.fibers, probe.fiber)]
    /\ UNCHANGED <<server, envRoot, cache, req, fetches, doc, props, ui, host>>

InitFiber ==
    /\ server = ServerFixture
    /\ envRoot = EnvRootFixture
    /\ cache = [u \in Units |-> NoEntry]
    /\ req = [r \in Requests |-> IdleReq]
    /\ fetches = [u \in Units |-> 0]
    /\ props = PropsDefault
    /\ ui = UiInit
    /\ host = HostInit
    /\ \/ /\ doc \in WalkDocs
          /\ probe \in {WalkCall(fn, fiber, DefaultMaxDepth) :
                           fn \in {"findNearestComponentFiber",
                                   "collectComponentAncestry"},
                           fiber \in WalkFibers \cup {0}}
       \/ /\ doc \in ScanDocs
          /\ probe \in {ScanCall(limit) : limit \in ScanLimits}
       \/ /\ doc \in {ChainDoc(NoAttr, record, NoDebugStack, NoDebugStack) :
                         record \in DebugSourceRecords}
          /\ probe \in {DebugSourceCall(fiber) : fiber \in {0, 1, 2}}

NextFiber ==
    \/ FindNearestLoop
    \/ CollectAncestryLoop
    \/ ScanLoop
    \/ CallExtractDebugSourceOf

\* A function that has been entered keeps executing: JavaScript runs a
\* synchronous call to completion, so a loop that can take a step takes it
\* Each walk is a synchronous loop that runs on once entered, and a call
\* that was made is carried out
SpecFiber ==
    /\ InitFiber
    /\ [][NextFiber]_vars
    /\ WF_vars(FindNearestLoop)
    /\ WF_vars(CollectAncestryLoop)
    /\ WF_vars(CallExtractDebugSourceOf)

(***************************************************************************)
(* Any sequence of engine operations on a document: each action is one     *)
(* call of an exported function of fiber.ts or fiber-inspect.ts (or of     *)
(* resolveComponentSource up to its return or its call of resolveSourceMap) *)
(* on the document as the calls before it left it                          *)
(***************************************************************************)

\* How often one fiber is inspected in a run
MaxRenders == 2

EngineDocs ==
    {DocFixture,
     ChainDoc(NoAttr, NoDebugSource, NoDebugStack, DebugStack(StackInU2)),
     OwnerDoc(DebugStack(StackInU1), 1, NoDebugStack, DebugStack(StackInU1))}

EngineFibers(d) == 0..Len(d.fibers)

\* The heap now: the document's fibers and the renderCountMap
Heap == [fibers |-> doc.fibers, renderCountMap |-> probe.renderCountMap]

\* The step of a call that returned `result` and left the heap `heap`
EngineReturn(op, heap, result) ==
    /\ probe.fn = "engine"
    /\ doc' = [doc EXCEPT !.fibers = heap.fibers]
    /\ probe' = [probe EXCEPT !.renderCountMap = heap.renderCountMap,
                              !.op = op, !.result = result]
    /\ UNCHANGED <<server, envRoot, cache, req, fetches, props, ui, host>>

CallInspectFiber(fiber) ==
    /\ probe.fn = "engine"
    /\ fiber # 0 => probe.renderCountMap[fiber] < MaxRenders
    /\ EngineReturn("inspectFiber", inspectFiber(Heap, fiber).heap,
                    inspectFiber(Heap, fiber).inspection)

CallFindNearestComponentFiber(fiber) ==
    EngineReturn("findNearestComponentFiber", Heap,
                 findNearestComponentFiber(doc.fibers, fiber))

CallCollectComponentAncestry(fiber) ==
    EngineReturn("collectComponentAncestry", Heap,
                 collectComponentAncestry(doc.fibers, fiber, DefaultMaxDepth))

CallCollectVisibleChunkUrls(limit) ==
    EngineReturn("collectVisibleChunkUrls", Heap,
                 collectVisibleChunkUrls(doc, limit))

CallExtractDebugSource(fiber) ==
    EngineReturn("extractDebugSource", Heap,
                 extractDebugSource(doc.fibers, fiber))

CallExtractFiberStackFrame(fiber) ==
    /\ fiber # 0
    /\ EngineReturn("extractStackFrame", Heap,
                    extractStackFrame(doc.fibers[fiber].debugStack))

CallResolveComponentSource(fiber, element) ==
    /\ fiber # 0
    /\ EngineReturn("resolveComponentSource", Heap,
                    resolveComponentSource(doc, fiber, element))

InitEngineOps ==
    /\ server = ServerFixture
    /\ envRoot = EnvRootFixture
    /\ cache = [u \in Units |-> NoEntry]
    /\ req = [r \in Requests |-> IdleReq]
    /\ fetches = [u \in Units |-> 0]
    /\ doc \in EngineDocs
    /\ props = PropsDefault
    /\ ui = UiInit
    /\ host = HostInit
    /\ probe = [fn |-> "engine",
                renderCountMap |-> [f \in 1..Len(doc.fibers) |-> 0],
                op |-> "none", result |-> 0]

NextEngineOps ==
    \/ \E fiber \in EngineFibers(doc) : CallInspectFiber(fiber)
    \/ \E fiber \in EngineFibers(doc) : CallFindNearestComponentFiber(fiber)
    \/ \E fiber \in EngineFibers(doc) : CallCollectComponentAncestry(fiber)
    \/ \E limit \in {1, DefaultLimit} : CallCollectVisibleChunkUrls(limit)
    \/ \E fiber \in EngineFibers(doc) : CallExtractDebugSource(fiber)
    \/ \E fiber \in EngineFibers(doc) : CallExtractFiberStackFrame(fiber)
    \/ \E fiber \in EngineFibers(doc), element \in Elements \cup {NoElement} :
          CallResolveComponentSource(fiber, element)

SpecEngineOps == InitEngineOps /\ [][NextEngineOps]_vars

(***************************************************************************)
(* toRelativePath called directly on drawn paths, with the explicit root   *)
(* and the root of the environment set, empty or absent                    *)
(***************************************************************************)

RelPaths ==
    { <<"/","h","o","m","e","/","u","/","p","r","o","j","/","s","r","c","/","A","p","p",".","t","s","x">>,
      <<"/","h","o","m","e","/","u","/","p","r","o","j">>,
      <<"/","h","o","m","e","/","u","/","p","r","o","j","/">>,
      <<"/","h","o","m","e","/","u","/","p","r","o","j","e","c","t","/","l","i","b","/","a",".","t","s">>,
      <<"/","x","/","a","p","p","/","s","r","c","/","a",".","t","s">>,
      <<"/","x","/","s","r","c","/","a","p","p","/","s","r","c","/","a",".","t","s">>,
      <<"/","x","/","p","a","g","e","s","/","c","o","m","p","o","n","e","n","t","s","/","a",".","t","s">>,
      <<"/","x","/","c","o","m","p","o","n","e","n","t","s","/","p","a","g","e","s","/","a",".","t","s">>,
      <<"/","a","/","b","/","c","/","d",".","t","s">>,
      <<"b","/","d",".","t","s">>,
      <<"d",".","t","s">>,
      <<>>,
      <<"/","o","p","t","/","l","i","b","/","/","a",".","t","s">>,
      <<"/","h","o","m","e","/","u","/","p","r","o","j","/","/","s","r","c","/","a",".","t","s">>,
      <<"/","s","r","c">>,
      <<"/","y","/","s","r","c","/">> }

RelRoots ==
    { Some(<<"/","h","o","m","e","/","u","/","p","r","o","j">>),
      Some(<<"/","h","o","m","e","/","u","/","p","r","o","j","/">>),
      Some(<<"/","q">>),
      Some(<<>>),
      Undefined }
\* A caller is about to call toRelativePath(absolutePath, projectRoot) with
\* process.env.NEXT_PUBLIC_PROJECT_ROOT = env
RelativeCall(absolutePath, projectRoot, env) ==
    [fn |-> "toRelativePath", pc |-> "call", absolutePath |-> absolutePath,
     projectRoot |-> projectRoot, env |-> env, result |-> <<>>]

CallToRelativePath ==
    /\ probe.fn = "toRelativePath"
    /\ probe.pc = "call"
    /\ probe' = [probe EXCEPT
                    !.pc = "return",
                    !.result = toRelativePath(probe.absolutePath,
                                              probe.projectRoot, probe.env)]
    /\ UNCHANGED <<server, envRoot, cache, req, fetches, doc, props, ui, host>>

InitRel ==
    /\ server = ServerFixture
    /\ envRoot = EnvRootFixture
    /\ cache = [u \in Units |-> NoEntry]
    /\ req = [r \in Requests |-> IdleReq]
    /\ fetches = [u \in Units |-> 0]
    /\ doc = DocFixture
    /\ props = PropsDefault
    /\ ui = UiInit
    /\ host = HostInit
    /\ probe \in {RelativeCall(p, root, env) :
                     p \in RelPaths, root \in RelRoots, env \in RelRoots}

NextRel == CallToRelativePath

SpecRel == InitRel /\ [][NextRel]_vars

(***************************************************************************)
(* The hierarchy menu: right clicks with the modifier held, the keyboard   *)
(* and mouse events of the menu on display, and the resolutions they start *)
(***************************************************************************)

\* The page of the menu runs: e1 is rendered by the class component B
\* inside the function component A, e2 by the function component C, e3 by A
\* directly.  A is located by its stack (unit u1), B and C by structured
\* records; no element's own fiber has a stack.
MenuDoc ==
    [order |-> <<"e1", "e2", "e3">>,
     fiberOf |-> [e \in Elements |->
                    IF e = "e1" THEN 3 ELSE IF e = "e2" THEN 5 ELSE 6],
     attr |-> [e \in Elements |-> NoAttr],
     fibers |->
        << [tag |-> 0, return |-> 0, type |-> NamedType(<<"A">>),
            debugSource |-> NoDebugSource, debugStack |-> DebugStack(StackOfA),
            inspectable |-> TRUE],
           [tag |-> 1, return |-> 1, type |-> NamedType(<<"B">>),
            debugSource |->
                [has |-> TRUE,
                 fileName |-> <<"/","r","/","s","r","c","/","B",".","t","s","x">>,
                 lineNumber |-> Num(7), columnNumber |-> NoNumber],
            debugStack |-> NoDebugStack, inspectable |-> FALSE],
           HostFiber(2, NoDebugStack),
           [tag |-> 0, return |-> 0, type |-> NamedType(<<"C">>),
            debugSource |->
                [has |-> TRUE,
                 fileName |-> <<"/","r","/","s","r","c","/","C",".","t","s","x">>,
                 lineNumber |-> Num(3), columnNumber |-> Num(2)],
            debugStack |-> NoDebugStack, inspectable |-> FALSE],
           HostFiber(4, NoDebugStack),
           HostFiber(1, NoDebugStack) >>]

MenuKeys == {"ArrowDown", "ArrowUp", "Enter", "Escape"}

\* keydown while the menu has the focus: the document's capturing listener
\* (handleKeyDown) runs first, then the listeners of the container
MenuKeyDown(key) ==
    /\ ui.contextMenu.display
    /\ \E t \in {DispatchKeyDown(
                     handleKeyDown([Now EXCEPT !.host.selected = <<>>], key),
                     ui.contextMenu.listeners, 1, key)} :
          Commit(t)

\* The pointer enters row `index` of the menu
MenuMouseEnter(index) ==
    /\ ui.contextMenu.display
    /\ index < Len(ui.contextMenu.rows)
    /\ \E t \in {RowMouseEnter(Now, index)} : Commit(t)

\* click on row `index` of the menu: the document's capturing listener
\* (handleClick) runs first, then the listener of the row
MenuRowClick(index) ==
    /\ ui.contextMenu.display
    /\ index < Len(ui.contextMenu.rows)
    /\ \E t \in {RowClick(handleClick([Now EXCEPT !.host.selected = <<>>],
                                       host.pointerAt, TRUE),
                           index)} :
          Commit(t)

\* In the menu runs the pointer moves only while the menu is on display or
\* the modifier is up, so that no hover resolution competes for the calls
\* of a run; handleMouseMove runs as for every mousemove
MenuPointerMove(target) ==
    /\ ui.contextMenu.display \/ ~ui.isModifierHeld
    /\ MouseMove(target)

InitMenu ==
    /\ server = ServerFixture
    /\ envRoot = EnvRootFixture
    /\ cache = [u \in Units |-> NoEntry]
    /\ req = [r \in Requests |-> IdleReq]
    /\ fetches = [u \in Units |-> 0]
    /\ doc = MenuDoc
    /\ props = PropsDefault
    /\ ui = UiInit
    /\ host = HostInit
    /\ probe = NoProbe

NextMenu ==
    \/ KeyDown("Alt")
    \/ KeyUp("Alt")
    \/ \E target \in Elements : MenuPointerMove(target)
    \/ ContextMenu
    \/ \E key \in MenuKeys : MenuKeyDown(key)
    \/ \E index \in 0..1 : MenuMouseEnter(index)
    \/ \E index \in 0..1 : MenuRowClick(index)
    \/ \E inMenu \in BOOLEAN : Click(inMenu)
    \/ \E r \in UiRequests, o \in FetchOutcomes : FetchSettles(r, o)
    \/ \E r \in UiRequests, b \in JsonOutcomes : JsonSettles(r, b)

SpecMenu == InitMenu /\ [][NextMenu]_vars

(***************************************************************************)
(* safeSerialize (fiber-inspect.ts): the display of a value of an object   *)
(* graph.  A value is a number, an array, a plain object or a React        *)
(* element; arrays and objects list the values they hold.  The recursion  *)
(* is modelled twice: as the function, threading the visited set through  *)
(* the items in order, and call by call with an explicit call stack.       *)
(***************************************************************************)
MAX_OBJECT_KEYS == 3
MAX_ARRAY_ITEMS == 3
MAX_DEPTH == 2

\* The longest list of items an array or object of a drawn graph holds
MaxValueLen == 4

CircularText == <<"[","C","i","r","c","u","l","a","r","]">>
ElementText == <<"<","X",">">>
NumberText == <<"7">>
\* The one character U+2026
Ellipsis == "..."

\* Line 85: `depth >= MAX_DEPTH`
DepthLimitedDeeper(depth) == depth > MAX_DEPTH
DepthLimited(depth) == depth >= MAX_DEPTH

\* Lines 95 and 105: slice(0, MAX_ARRAY_ITEMS) and slice(0, MAX_OBJECT_KEYS)
ItemLimit(kind) == IF kind = "array" THEN MAX_ARRAY_ITEMS ELSE MAX_OBJECT_KEYS

Expanded(v) ==
    IF Len(v.items) < ItemLimit(v.kind) THEN Len(v.items) ELSE ItemLimit(v.kind)

\* Lines 96-97 and 106-107: the k-th mapped item, with the separator of
\* join(', ') and, for an object, its key (the keys are k1, k2, ...)
ItemEntry(kind, k, display) ==
    (IF k > 1 THEN <<",", " ">> ELSE <<>>)
       \o (IF kind = "object"
           THEN <<"k">> \o NumberToString(k) \o <<":", " ">> ELSE <<>>)
       \o display

\* Lines 98-99 and 108-109: `, (ellipsis)n more` and the brackets
Wrapped(v, body) ==
    (IF v.kind = "array" THEN <<"[">> ELSE <<"{">>)
       \o body
       \o (IF Len(v.items) > ItemLimit(v.kind)
           THEN <<",", " ", Ellipsis>>
                   \o NumberToString(Len(v.items) - ItemLimit(v.kind))
                   \o <<" ","m","o","r","e">>
           ELSE <<>>)
       \o (IF v.kind = "array" THEN <<"]">> ELSE <<"}">>)

Serialized(display, type) == [done |-> TRUE, display |-> display, type |-> type]

\* Lines 41, 62-90: the calls that return without recursing
SerializeLeaf(v, value, seen, depth) ==
    IF v.kind = "number" THEN Serialized(NumberText, "number")
    ELSE IF value \in seen THEN Serialized(CircularText, "other")
    ELSE IF v.kind = "element" THEN Serialized(ElementText, "element")
    ELSE IF DepthLimited(depth)
    THEN Serialized(IF v.kind = "array"
                    THEN <<"[",Ellipsis>> \o NumberToString(Len(v.items)) \o <<"]">>
                    ELSE <<"{",Ellipsis,"}">>,
                    v.kind)
    ELSE [done |-> FALSE, display |-> <<>>, type |-> v.kind]

\* Lines 64-65: seen.add(value) for an object not seen before
SeenAfter(v, value, seen) ==
    IF v.kind = "number" THEN seen ELSE seen \cup {value}

RECURSIVE safeSerialize(_, _, _, _)
RECURSIVE SerializeItems(_, _, _, _, _, _)
RECURSIVE SerializeItemsNext(_, _, _, _, _, _)

\* Lines 94-97, 103-107: the mapped items from the k-th on; `seen` is the one
\* WeakSet all the calls share
SerializeItems(heap, value, k, seen, depth, acc) ==
    IF k > Expanded(heap[value]) THEN [display |-> acc, seen |-> seen]
    ELSE SerializeItemsNext(
             heap, value, k, depth, acc,
             safeSerialize(heap, heap[value].items[k], seen, depth + 1))

SerializeItemsNext(heap, value, k, depth, acc, r) ==
    SerializeItems(heap, value, k + 1, r.seen, depth,
                   acc \o ItemEntry(heap[value].kind, k, r.display))

SerializeWrap(v, r) ==
    [display |-> Wrapped(v, r.display), type |-> v.kind, seen |-> r.seen]

\* Lines 30-114; the result carries the WeakSet as the call leaves it
safeSerialize(heap, value, seen, depth) ==
    IF SerializeLeaf(heap[value], value, seen, depth).done
    THEN [display |-> SerializeLeaf(heap[value], value, seen, depth).display,
          type |-> SerializeLeaf(heap[value], value, seen, depth).type,
          seen |-> SeenAfter(heap[value], value, seen)]
    ELSE SerializeWrap(
             heap[value],
             SerializeItems(heap, value, 1,
                            SeenAfter(heap[value], value, seen), depth, <<>>))

\* ---- call by call ----
\* A frame is a call that is mapping its items: `next` is the item the map
\* is at, `out` the joined displays so far, `call` its number in `calls`
Top(p) == p.stack[Len(p.stack)]

FrameAfter(heap, f, display) ==
    [f EXCEPT !.out = f.out \o ItemEntry(heap[f.value].kind, f.next, display),
              !.next = f.next + 1]

\* A call returns r: to the caller of safeSerialize, or into the map of
\* the frame below
Deliver(p, r) ==
    IF p.stack = <<>>
    THEN [p EXCEPT !.pc = "return", !.result = r]
    ELSE [p EXCEPT !.pc = "loop",
                   !.stack[Len(p.stack)] = FrameAfter(p.heap, Top(p), r.display)]

Logged(p, value, depth, leaf) ==
    [p EXCEPT
        !.seen = SeenAfter(p.heap[value], value, p.seen),
        !.calls = Append(p.calls,
                         [value |-> value, depth |-> depth,
                          parent |-> IF p.stack = <<>> THEN 0 ELSE Top(p).call,
                          descended |-> ~leaf.done,
                          display |-> leaf.display])]

\* safeSerialize(value, seen, depth) is called
EnterWith(p, value, depth, leaf) ==
    IF leaf.done
    THEN Deliver(Logged(p, value, depth, leaf),
                 [display |-> leaf.display, type |-> leaf.type])
    ELSE [Logged(p, value, depth, leaf) EXCEPT
             !.pc = "loop",
             !.stack = Append(p.stack,
                              [value |-> value, depth |-> depth, next |-> 1,
                               out |-> <<>>, call |-> Len(p.calls) + 1])]

Enter(p, value, depth) ==
    EnterWith(p, value, depth,
              SerializeLeaf(p.heap[value], value, p.seen, depth))

\* Lines 100 and 110: the map is over, the call returns its display
ReturnFrame(p) ==
    Deliver([p EXCEPT !.stack = SubSeq(p.stack, 1, Len(p.stack) - 1)],
            [display |-> Wrapped(p.heap[Top(p).value], Top(p).out),
             type |-> p.heap[Top(p).value].kind])

\* One call of safeSerialize, or the return of the call on top of the stack
SerializeStep ==
    /\ probe.fn = "safeSerialize"
    /\ probe.pc \in {"call", "loop"}
    /\ probe' =
          IF probe.pc = "call" THEN Enter(probe, probe.value, 0)
          ELSE IF Top(probe).next <= Expanded(probe.heap[Top(probe).value])
          THEN Enter(probe,
                     probe.heap[Top(probe).value].items[Top(probe).next],
                     Top(probe).depth + 1)
          ELSE ReturnFrame(probe)
    /\ UNCHANGED <<server, envRoot, cache, req, fetches, doc, props, ui, host>>

\* The drawn graphs: value 1 is an array, 2 a plain object, 3 an array, an
\* object or a React element, 4 the number 7; an item list is any list of
\* up to two values (of up to one for value 3), or a long list, so that
\* lists shorter and longer than the limits, shared values and cycles of
\* every length all occur
SerValues == 1..4
SerItemLists ==
    UNION {[1..n -> SerValues] : n \in 0..2}
       \cup {[i \in 1..MaxValueLen |-> IF i = MaxValueLen THEN v ELSE 4] :
                v \in SerValues}
       \cup {[i \in 1..MaxValueLen |-> v] : v \in 1..3}

SerValue(kind, items) == [kind |-> kind, items |-> items]

SerHeaps ==
    {<<SerValue("array", a), SerValue("object", b), c, SerValue("number", <<>>)>> :
        a \in SerItemLists, b \in SerItemLists,
        c \in {SerValue(k, l) : k \in {"array", "object"},
                                 l \in {m \in SerItemLists : Len(m) # 2}}
                 \cup {SerValue("element", <<>>)}}

\* A caller is about to call safeSerialize(value) on the graph `heap`
SerializeCall(heap, value) ==
    [fn |-> "safeSerialize", pc |-> "call", heap |-> heap, value |-> value,
     seen |-> {}, stack |-> <<>>, calls |-> <<>>,
     result |-> [display |-> <<>>, type |-> "none"]]

InitSerialize ==
    /\ server = ServerFixture
    /\ envRoot = EnvRootFixture
    /\ cache = [u \in Units |-> NoEntry]
    /\ req = [r \in Requests |-> IdleReq]
    /\ fetches = [u \in Units |-> 0]
    /\ doc = DocFixture
    /\ props = PropsDefault
    /\ ui = UiInit
    /\ host = HostInit
    /\ probe \in {SerializeCall(h, 1) : h \in SerHeaps}

NextSerialize == SerializeStep

SpecSerialize ==
    InitSerialize /\ [][NextSerialize]_vars /\ WF_vars(NextSerialize)

(***************************************************************************)
(* Properties                                                              *)
(***************************************************************************)

Done(r) == req[r].pc = "done"
Started(r) == req[r].pc # "idle"
IsResolve(r) == req[r].kind = "resolve"
IsPrefetch(r) == req[r].kind = "prefetch"
SameUnit(r, q) == req[r].unit = req[q].unit
SameQuery(r, q) ==
    /\ SameUnit(r, q)
    /\ req[r].line = req[q].line
    /\ req[r].col = req[q].col

\* The call's retrieval failed: it fetched and stored nothing
RetrievalFailed(r) == Done(r) /\ req[r].fetched /\ ~req[r].stored

\* The call had the sections at hand: from the cache or from its own fetch
HadSections(r) == Done(r) /\ (req[r].stored \/ ~req[r].fetched)

\* r had settled when q was called
Before(r, q) == Started(q) /\ r \in req[q].prior

\* r and q were in flight at the same time, each with its own retrieval
OverlapFetch(r, q) ==
    /\ r # q
    /\ Started(r) /\ Started(q)
    /\ ~Before(r, q) /\ ~Before(q, r)
    /\ req[r].fetched /\ req[q].fetched

\* q is the first call for r's unit made after r
NextCallForUnit(r, q) ==
    /\ r < q
    /\ Started(q)
    /\ SameUnit(r, q)
    /\ \A x \in Requests : (r < x /\ x < q) => ~SameUnit(r, x)

\* C1 (as amended): when resolveSourceMap is called twice in sequence with the
\* same unit, line and column and the same cache, and the first call had the
\* sections (from the cache or from a retrieval that succeeded), the second
\* call returns the same result and issues no retrieval, so the two calls
\* perform at most one retrieval.
C1_SequentialIdempotence ==
    \A r \in Requests, q \in Requests :
        (/\ r < q /\ Done(r) /\ Done(q) /\ Before(r, q)
         /\ IsResolve(r) /\ IsResolve(q) /\ SameQuery(r, q)
         /\ HadSections(r))
        => (req[q].result = req[r].result /\ ~req[q].fetched)

\* C1 as stated: any two consecutive calls with the same arguments return the
\* same result and issue at most one retrieval between them.
C1_Original ==
    \A r \in Requests, q \in Requests :
        (/\ q = r + 1 /\ Done(r) /\ Done(q) /\ Before(r, q)
         /\ IsResolve(r) /\ IsResolve(q) /\ SameQuery(r, q))
        => (req[q].result = req[r].result
            /\ ~(req[r].fetched /\ req[q].fetched))

\* The first call fetched and stored, the second answered from the cache
C1_Witness ==
    \E r \in Requests, q \in Requests :
        /\ q = r + 1 /\ Done(r) /\ Done(q) /\ Before(r, q)
        /\ IsResolve(r) /\ IsResolve(q) /\ SameQuery(r, q)
        /\ req[r].fetched /\ req[r].stored /\ ~req[q].fetched
        /\ req[r].result.tag = "source"
        /\ req[q].result = req[r].result

\* C2: once the cache holds sections for a unit, no later step issues a
\* retrieval for that unit, and no later step (a completion of a fetch that
\* was in flight included) removes or changes the value stored under it.
C2_CachedNeverRefetched ==
    [][\A u \in Units :
          cache[u].has => (cache'[u] = cache[u] /\ fetches'[u] = fetches[u])]_vars

\* Two overlapping fetches of one unit both completed and stored, and a call
\* made after the first store was answered from the cache
C2_Witness ==
    \E r \in Requests, q \in Requests, x \in Requests :
        /\ OverlapFetch(r, q) /\ SameUnit(r, q)
        /\ req[r].stored /\ req[q].stored
        /\ SameUnit(r, x) /\ Before(r, x) /\ ~req[x].fetched /\ Done(x)
        /\ cache[req[r].unit] = Entry(server[req[r].unit])

C6_PrefetchSemantics ==
    /\ [](\A q \in Requests, r \in Requests :
            (IsPrefetch(q) /\ req[r].stored /\ SameUnit(r, q) /\ Before(r, q))
            => ~req[q].fetched)
    /\ [](\A q \in Requests :
            (IsPrefetch(q) /\ req[q].stored)
            => cache[req[q].unit] = Entry(server[req[q].unit]))
    /\ [](\A q \in Requests : (IsPrefetch(q) /\ Done(q)) => req[q].result = Void)
    /\ [][\A q \in Requests :
            (IsPrefetch(q) /\ req[q].pc \in {"fetch", "json"}
             /\ req'[q].pc = "done" /\ ~req'[q].stored) => cache' = cache]_vars

\* C6 as stated: the same, with at most one retrieval by prefetching per unit
C6_Original ==
    /\ \A q \in Requests, r \in Requests :
          (IsPrefetch(q) /\ req[r].stored /\ SameUnit(r, q) /\ Before(r, q))
          => ~req[q].fetched
    /\ \A q \in Requests :
          (IsPrefetch(q) /\ req[q].stored)
          => cache[req[q].unit] = Entry(server[req[q].unit])
    /\ \A q \in Requests : (IsPrefetch(q) /\ Done(q)) => req[q].result = Void
    /\ \A u \in Units : cache[u].has => \E r \in Requests :
                                            req[r].stored /\ req[r].unit = u
    /\ \A u \in Units :
          Cardinality({q \in Requests : IsPrefetch(q) /\ req[q].fetched
                                        /\ req[q].unit = u}) <= 1

\* A prefetch failed, a second one stored the sections, a third one found
\* the unit cached and fetched nothing
C6_Witness ==
    \E p1 \in Requests, p2 \in Requests, p3 \in Requests :
        /\ IsPrefetch(p1) /\ IsPrefetch(p2) /\ IsPrefetch(p3)
        /\ SameUnit(p1, p2) /\ SameUnit(p2, p3)
        /\ RetrievalFailed(p1) /\ req[p1].result = Void
        /\ req[p2].stored /\ Before(p2, p3)
        /\ Done(p3) /\ ~req[p3].fetched
        /\ cache[req[p2].unit] = Entry(server[req[p2].unit])

\* C7 (as amended): when two requests for one unit overlap and each issues
\* its own retrieval, then in every interleaving of their completions: if at
\* least one retrieval succeeds the cache ends holding the unit's sections; if
\* both succeed, two resolve requests for the same (line, column) return the
\* same result; and the cache never holds, for any unit, a value other than
\* the one a single successful request stores.
C7_ConcurrentConverge ==
    /\ \A r \in Requests, q \in Requests :
          (OverlapFetch(r, q) /\ SameUnit(r, q) /\ Done(r) /\ Done(q))
          => /\ (req[r].stored \/ req[q].stored)
                    => cache[req[r].unit] = Entry(server[req[r].unit])
             /\ (/\ req[r].stored /\ req[q].stored
                 /\ IsResolve(r) /\ IsResolve(q) /\ SameQuery(r, q))
                    => req[r].result = req[q].result
    /\ \A u \in Units : cache[u] \in {NoEntry, Entry(server[u])}

\* C7 as stated: whenever two overlapping requests for one unit have both
\* completed, the cache holds the unit's sections and two resolve requests
\* for the same (line, column) have the same result.
C7_Original ==
    /\ \A r \in Requests, q \in Requests :
          (OverlapFetch(r, q) /\ SameUnit(r, q) /\ Done(r) /\ Done(q))
          => /\ cache[req[r].unit] = Entry(server[req[r].unit])
             /\ (IsResolve(r) /\ IsResolve(q) /\ SameQuery(r, q))
                    => req[r].result = req[q].result
    /\ \A u \in Units : cache[u] \in {NoEntry, Entry(server[u])}

\* Two overlapping resolve requests for the same position both fetched,
\* both stored, and returned the same source
C7_Witness ==
    \E r \in Requests, q \in Requests :
        /\ OverlapFetch(r, q) /\ SameQuery(r, q) /\ Done(r) /\ Done(q)
        /\ IsResolve(r) /\ IsResolve(q)
        /\ req[r].stored /\ req[q].stored
        /\ req[r].result.tag = "source" /\ req[r].result = req[q].result


(***************************************************************************)
(* Section selection and the null cases of resolveSourceMap (SpecSel)      *)
(***************************************************************************)

\* The sections call r worked on: the unit's cached or fetched list
SectionsOf(r) == server[req[r].unit]

\* The sections of call r whose offset.line is <= the queried line
Qualifying(r) ==
    {k \in 1..Len(SectionsOf(r)) : SectionsOf(r)[k].offsetLine <= req[r].line}

\* k has the greatest offset.line among the qualifying sections of call r
GreatestQualifying(r, k) ==
    /\ k \in Qualifying(r)
    /\ \A j \in Qualifying(r) :
          SectionsOf(r)[j].offsetLine <= SectionsOf(r)[k].offsetLine

\* The last section in list order among those of greatest qualifying offset
Selected(r) ==
    CHOOSE k \in Qualifying(r) :
        /\ GreatestQualifying(r, k)
        /\ \A j \in Qualifying(r) : GreatestQualifying(r, j) => j <= k

\* Call r is a settled resolveSourceMap call that had the unit's sections
ResolvedWithSections(r) == IsResolve(r) /\ HadSections(r)

\* C9: for every section list in non-decreasing offset order and every
\* queried line L, a resolveSourceMap call that returns a source returns
\* the source of a section whose offset.line is <= L and is the greatest
\* such offset in the list; no section with an offset above L is used.
C9_SectionSelection ==
    \A r \in Requests :
        (ResolvedWithSections(r) /\ req[r].result.tag = "source") =>
            \E k \in 1..Len(SectionsOf(r)) :
                /\ GreatestQualifying(r, k)
                /\ Len(SectionsOf(r)[k].sources) > 0
                /\ req[r].result.filePath =
                       FilePathOf(SectionsOf(r)[k].sources[1], envRoot)

\* Offsets 0, 50, 120 queried at line 75: the section at offset 50 answered
C9_Witness ==
    \E r \in Requests :
        /\ ResolvedWithSections(r)
        /\ SectionsOf(r) = SectionsU1
        /\ req[r].line = 75
        /\ req[r].result.tag = "source"
        /\ req[r].result.filePath =
               FilePathOf(SectionsU1[2].sources[1], envRoot)

\* C10: a resolveSourceMap call that had the map (cached or fetched with
\* success) returns null exactly when no section has offset.line <= the
\* queried line (an empty list included) or the selected section has an
\* empty sources list; otherwise it returns a ResolvedSource.
C10_NullCases ==
    \A r \in Requests :
        ResolvedWithSections(r) =>
            IF Qualifying(r) = {}
            THEN req[r].result = Null
            ELSE IF Len(SectionsOf(r)[Selected(r)].sources) = 0
                 THEN req[r].result = Null
                 ELSE req[r].result.tag = "source"

\* One call met a selected section without sources and returned null;
\* another returned a source although the mappings of its selected section
\* have no line for the queried position
C10_Witness ==
    \E r \in Requests, q \in Requests :
        /\ ResolvedWithSections(r) /\ ResolvedWithSections(q)
        /\ Qualifying(r) # {}
        /\ Len(SectionsOf(r)[Selected(r)].sources) = 0
        /\ req[r].result = Null
        /\ Qualifying(q) # {}
        /\ Len(SectionsOf(q)[Selected(q)].sources) > 0
        /\ req[q].line - SectionsOf(q)[Selected(q)].offsetLine >= 2
        /\ req[q].result.tag = "source"



(***************************************************************************)
(* Failure handling, the priority chain and the hover guard                *)
(***************************************************************************)

\* C4: whatever the retrieval does (fetch throws, status not ok, body not
\* JSON, JSON without sections), a resolution completes with null and
\* never with a rejected promise, and the click handler that awaits it
\* never ends in an unhandled rejection.
C4_FailuresEndAsNull ==
    /\ \A r \in Requests :
          (Done(r) /\ IsResolve(r)) => req[r].result.tag # "rejected"
    /\ ~host.unhandledRejection

\* Call r was made through resolveComponentSource by an outside caller
ChainCall(r) == Started(r) /\ req[r].origin.by = "api"

\* The element passed to call r carries a baked location
HasAttrHint(r) ==
    /\ req[r].origin.target # NoElement
    /\ doc.attr[req[r].origin.target].has

\* The fiber passed to call r carries a structured record with a file name
HasRecord(r) ==
    /\ doc.fibers[req[r].origin.index].debugSource.has
    /\ doc.fibers[req[r].origin.index].debugSource.fileName # <<>>

\* Call r settled at once, without calling resolveSourceMap and so without
\* a cache lookup or a retrieval
SettledWithoutMap(r) ==
    /\ Done(r)
    /\ req[r].kind = "component"
    /\ ~req[r].fetched

\* C5: resolveComponentSource returns the attribute hint when the element
\* has one, whatever record or stack the handle has, and makes no
\* retrieval; without a hint it returns the structured record when that
\* has a file name, again without retrieval; only when both miss does the
\* stack and source-map path run.
C5_PriorityChain ==
    \A r \in UiRequests :
        ChainCall(r) =>
            /\ HasAttrHint(r) =>
                  /\ SettledWithoutMap(r)
                  /\ req[r].result = doc.attr[req[r].origin.target].source
            /\ (~HasAttrHint(r) /\ HasRecord(r)) =>
                  /\ SettledWithoutMap(r)
                  /\ req[r].result.tag = "source"
                  /\ req[r].result.filePath =
                         doc.fibers[req[r].origin.index].debugSource.fileName
            /\ req[r].kind = "resolve" => (~HasAttrHint(r) /\ ~HasRecord(r))

\* A handle with hint, record and stack frame answered with the hint; the
\* same handle asked without the element answered with the record
C5_Witness ==
    /\ doc.attr["e1"].has
    /\ doc.fibers[2].debugSource.fileName # <<>>
    /\ doc.fibers[2].debugStack = DebugStack(StackInU1)
    /\ \E r \in UiRequests, q \in UiRequests :
          /\ ChainCall(r) /\ ChainCall(q)
          /\ req[r].origin.index = 2 /\ req[q].origin.index = 2
          /\ req[r].origin.target = "e1"
          /\ req[q].origin.target = NoElement
          /\ req[r].result = doc.attr["e1"].source
          /\ req[q].result.tag = "source"
          /\ req[q].result.filePath = doc.fibers[2].debugSource.fileName
          /\ fetches = [u \in Units |-> 0]

\* C8: whatever the order of mousemove events and of the completion of
\* their resolutions, a resolution that settles changes the tooltip text
\* only if the element it was started for is the element under the
\* pointer; a result that arrives after the pointer has moved to another
\* element, with or without a component, changes nothing.
C8_HoverStaleness ==
    [][\A r \in Requests :
          (/\ req[r].pc # "done"
           /\ req'[r].pc = "done"
           /\ req'[r].origin.by = "hover"
           /\ ui'.tooltip.textContent # ui.tooltip.textContent)
              => req'[r].origin.target = host'.pointerAt]_vars


(***************************************************************************)
(* The output of the resolver (SpecSel)                                    *)
(***************************************************************************)

\* The section call r selected, and the position the decoder gives for the
\* section-relative line and the queried column
SelectedSection(r) == SectionsOf(r)[Selected(r)]
DecodedFor(r) ==
    decodeOriginalPosition(SelectedSection(r).mappings,
                           req[r].line - SelectedSection(r).offsetLine,
                           req[r].col)

\* C11: a resolveSourceMap call that returns a source returns the file path
\* of the selected section and the position decoded from that section's
\* mappings at line (generatedLine - section.offset.line) and the unchanged
\* generated column; when the decoder returns null the call still returns a
\* source, with originalLine 1 and originalColumn 0.
C11_ResolverOutput ==
    \A r \in Requests :
        (ResolvedWithSections(r) /\ req[r].result.tag = "source") =>
            /\ req[r].result.filePath =
                   FilePathOf(SelectedSection(r).sources[1], envRoot)
            /\ IF DecodedFor(r).isNull
               THEN /\ req[r].result.originalLine = 1
                    /\ req[r].result.originalColumn = 0
               ELSE /\ req[r].result.originalLine = DecodedFor(r).originalLine
                    /\ req[r].result.originalColumn =
                           DecodedFor(r).originalColumn

\* A section at offset 1 or 2 answered a query one line below its offset
\* with original line 4, column 7 (line 1 of its mappings), and another
\* query beyond the last line of the mappings with line 1, column 0
C11_Witness ==
    \E r \in Requests, q \in Requests :
        /\ ResolvedWithSections(r) /\ ResolvedWithSections(q)
        /\ req[r].result.tag = "source" /\ req[q].result.tag = "source"
        /\ SelectedSection(r).offsetLine > 0
        /\ SelectedSection(r).mappings = SelMappings
        /\ req[r].line - SelectedSection(r).offsetLine = 1
        /\ req[r].result.originalLine = 4
        /\ req[r].result.originalColumn = 7
        /\ req[q].line - SelectedSection(q).offsetLine >= 2
        /\ DecodedFor(q).isNull
        /\ req[q].result.originalLine = 1
        /\ req[q].result.originalColumn = 0

(***************************************************************************)
(* The project root of a resolution started by the Locator (SpecUI)        *)
(***************************************************************************)

\* The source name is turbopack:///[project]/<rel> with <rel> not looking
\* OS-absolute; ProjectRest is <rel>
ProjectRest(name) == SliceFrom(name, Len(TURBOPACK_PROJECT))
ProjectRelative(name) ==
    /\ StartsWith(name, TURBOPACK_PROJECT)
    /\ ~StartsWith(ProjectRest(name), USERS_DIR)
    /\ ~StartsWith(ProjectRest(name), HOME_DIR)

\* C12: when the Locator is given a projectRoot R and the matched section's
\* first source is turbopack:///[project]/<rel> with <rel> project-relative,
\* the resolved filePath is R + '/' + <rel>; the root of the environment is
\* used only when no projectRoot is given.
C12_ExplicitRootUsed ==
    \A r \in Requests :
        (/\ ResolvedWithSections(r)
         /\ req[r].result.tag = "source"
         /\ ProjectRelative(SelectedSection(r).sources[1])) =>
            req[r].result.filePath =
                RootOf(props.projectRoot, envRoot) \o <<"/">>
                    \o ProjectRest(SelectedSection(r).sources[1])

(***************************************************************************)
(* File path derivation (SpecPath)                                         *)
(***************************************************************************)

\* The root of the environment, '' when it is not set
EnvRootText == IF envRoot.has THEN envRoot.val ELSE <<>>

\* The file path the derivation rule gives for a source name
DerivedPath(name) ==
    IF StartsWith(name, FILE_PREFIX) THEN SubSeq(name, 8, Len(name))
    ELSE IF StartsWith(name, TURBOPACK_PROJECT)
    THEN IF \/ StartsWith(ProjectRest(name), USERS_DIR)
            \/ StartsWith(ProjectRest(name), HOME_DIR)
         THEN <<"/">> \o ProjectRest(name)
         ELSE EnvRootText \o <<"/">> \o ProjectRest(name)
    ELSE name

\* The name of the first source of the only section served
ServedName(r) == SectionsOf(r)[1].sources[1]

\* C13: the file path of a resolution is derived from the section's first
\* source name: 'file://' is removed from a name that starts with it;
\* turbopack:///[project]/<rest> gives '/' + <rest> when <rest> starts with
\* 'Users/' or 'home/' and root + '/' + <rest> otherwise; every other name,
\* a turbopack:/// name without the [project] segment included, is returned
\* unchanged.
C13_FilePathDerivation ==
    \A r \in Requests :
        (ResolvedWithSections(r) /\ req[r].result.tag = "source") =>
            req[r].result.filePath = DerivedPath(ServedName(r))

\* The names on which the rule and the code agree: the [project] segment is
\* nowhere but at the start, and no line terminator follows it
PlainName(name) ==
    /\ IndexOfStr(name, TURBOPACK_PROJECT) \in {-1, 0}
    /\ \A i \in 1..Len(name) : name[i] \notin LineTerminators

\* The derivation rule restricted to plain names
PathDerivationOnPlainNames ==
    \A r \in Requests :
        (/\ ResolvedWithSections(r)
         /\ req[r].result.tag = "source"
         /\ PlainName(ServedName(r))) =>
            req[r].result.filePath = DerivedPath(ServedName(r))

(***************************************************************************)
(* The VLQ decoder (SpecVlq)                                               *)
(***************************************************************************)

SegmentDecoded == probe.fn = "decodeVLQSegment" /\ probe.pc = "return"

\* The 6-bit digit of an alphabet character, its payload and continuation
InAlphabet(c) == \E k \in 1..64 : BASE64_CHARS[k] = c
DigitOf(c) == (CHOOSE k \in 1..64 : BASE64_CHARS[k] = c) - 1
PayloadOf(c) == DigitOf(c) % 32
Continues(c) == DigitOf(c) >= 32

\* The positions where a token of the segment ends, the j-th of them and
\* the position where the j-th token starts
TokenEnds(segment) == {i \in 1..Len(segment) : ~Continues(segment[i])}
TokenEnd(segment, j) ==
    CHOOSE e \in TokenEnds(segment) :
        Cardinality({x \in TokenEnds(segment) : x <= e}) = j
TokenStart(segment, j) ==
    IF j = 1 THEN 1 ELSE TokenEnd(segment, j - 1) + 1

\* The raw value of the token at positions a..b: the payloads, little-endian
RECURSIVE RawValue(_, _, _)
RawValue(segment, a, b) ==
    IF a > b THEN 0
    ELSE PayloadOf(segment[a]) + 32 * RawValue(segment, a + 1, b)

\* The token at a..b has a raw value below 2^31
FitsIn31Bits(segment, a, b) ==
    \/ b - a <= 5
    \/ b - a = 6 /\ PayloadOf(segment[b]) <= 1

\* Every character is in the alphabet, the last token is complete and every
\* raw value fits in 31 bits
WellFormedSegment(segment) ==
    /\ Len(segment) > 0
    /\ \A i \in 1..Len(segment) : InAlphabet(segment[i])
    /\ ~Continues(segment[Len(segment)])
    /\ \A j \in 1..Cardinality(TokenEnds(segment)) :
          FitsIn31Bits(segment, TokenStart(segment, j), TokenEnd(segment, j))

\* Magnitude raw >> 1, negative when the least-significant bit of raw is 1
ValueOfRaw(raw) == IF raw % 2 = 1 THEN 0 - (raw \div 2) ELSE raw \div 2

\* C14: for every segment of alphabet characters with complete tokens whose
\* raw values fit in 31 bits, decodeVLQSegment returns one integer per token,
\* in order; a token's raw value is the little-endian sum of the 5-bit
\* payloads of its continuation-linked run, and the integer has magnitude
\* raw >> 1 and is negative when raw's least-significant bit is 1 (raw 7
\* gives -3, raw 6 gives 3).
C14_VlqValues ==
    (SegmentDecoded /\ WellFormedSegment(probe.segment)) =>
        /\ probe.result.ok
        /\ Len(probe.result.values) = Cardinality(TokenEnds(probe.segment))
        /\ \A j \in 1..Cardinality(TokenEnds(probe.segment)) :
              probe.result.values[j] =
                  ValueOfRaw(RawValue(probe.segment,
                                      TokenStart(probe.segment, j),
                                      TokenEnd(probe.segment, j)))
        /\ probe.segment = <<"H">> => probe.result.values = <<-3>>
        /\ probe.segment = <<"G">> => probe.result.values = <<3>>

\* "HgB" decoded to -3 (raw 7) and 16 (raw 32, two groups)
C14_Witness ==
    /\ SegmentDecoded
    /\ probe.segment = <<"H", "g", "B">>
    /\ WellFormedSegment(probe.segment)
    /\ probe.result.ok
    /\ probe.result.values = <<-3, 16>>

\* C15: decodeVLQSegment returns null for the empty segment and for every
\* segment with a character outside the 64-symbol alphabet, whatever was
\* decoded before that character; no partial list of values is returned.
C15_VlqBadInput ==
    (/\ SegmentDecoded
     /\ \/ probe.segment = <<>>
        \/ \E i \in 1..Len(probe.segment) : ~InAlphabet(probe.segment[i])) =>
        probe.result = [ok |-> FALSE, values |-> <<>>]

\* "HG!" : two tokens decoded, then the unknown character; the result is
\* null
C15_Witness ==
    /\ SegmentDecoded
    /\ probe.segment = <<"H", "G", "!">>
    /\ ~probe.result.ok
    /\ probe.result.values = <<>>

(***************************************************************************)
(* The position decoder (SpecDecode)                                       *)
(***************************************************************************)

PositionDecoded == probe.fn = "decodeOriginalPosition" /\ probe.pc = "return"

\* The deltas of the segments that decode to four values: generated column,
\* original line, original column
SegmentDelta(kind) ==
    CASE kind = "k" -> [gc |-> 5, ol |-> 3, oc |-> 7]
      [] kind = "c" -> [gc |-> 1, ol |-> 1, oc |-> 1]
      [] kind = "d" -> [gc |-> -1, ol |-> -1, oc |-> -1]

\* The items that are segments with four values, the 0-based line an item
\* is on and the number of lines
FullSegments(items) == {i \in 1..Len(items) : items[i] \in {"k", "c", "d"}}
LineOfItem(items, i) ==
    Cardinality({j \in 1..(i - 1) : items[j] = LineBreak})
LineCount(items) == LineOfItem(items, Len(items) + 1) + 1

\* The sum of one delta over the items of S
RECURSIVE SumOfDelta(_, _, _, _)
SumOfDelta(items, S, field, i) ==
    IF i > Len(items) THEN 0
    ELSE (IF i \in S THEN SegmentDelta(items[i])[field] ELSE 0)
             + SumOfDelta(items, S, field, i + 1)

\* The full segments of the lines before line t, and those of line t
FullBefore(items, t) ==
    {i \in FullSegments(items) : LineOfItem(items, i) < t}
FullOn(items, t) ==
    {i \in FullSegments(items) : LineOfItem(items, i) = t}

\* The running generated column at the full segment i: the sum over the
\* full segments of i's line up to i
RunningColumn(items, i) ==
    SumOfDelta(items,
               {j \in FullOn(items, LineOfItem(items, i)) : j <= i}, "gc", 1)

\* The position summed over the full segments of S
PositionOver(items, S) ==
    [isNull |-> FALSE,
     originalLine |-> SumOfDelta(items, S, "ol", 1) + 1,
     originalColumn |-> SumOfDelta(items, S, "oc", 1)]

\* C16: the original line and column returned by decodeOriginalPosition are
\* the sums of the deltas of every four-value segment of the lines before
\* the target line and of the four-value segments of the target line up to
\* some segment of it (carried across ';'); a segment that does not decode
\* or has fewer than four values adds nothing and does not end the decoding
\* of the segments after it.
C16_DeltaAccumulation ==
    (PositionDecoded /\ probe.targetLine < LineCount(probe.items)) =>
        \E last \in FullOn(probe.items, probe.targetLine) \cup {0} :
            probe.result =
                PositionOver(probe.items,
                             FullBefore(probe.items, probe.targetLine)
                                 \cup {i \in FullOn(probe.items,
                                                    probe.targetLine) :
                                          i <= last})

\* "KAGO;K!GO,CACC" at line 1: the deltas of line 0 are carried over the
\* ';', the corrupt segment is skipped and the one after it is added
C16_Witness ==
    /\ PositionDecoded
    /\ probe.items = <<"k", LineBreak, "x", "c">>
    /\ probe.targetLine = 1
    /\ probe.result.originalLine = 5
    /\ probe.result.originalColumn = 8

\* The first full segment of the target line whose running generated column
\* reaches the target column; 0 when there is none
FirstReaching(items, t, col) ==
    LET reaching == {i \in FullOn(items, t) : RunningColumn(items, i) >= col}
    IN IF reaching = {} THEN 0
       ELSE CHOOSE i \in reaching : \A j \in reaching : i <= j

\* C17: on the target line decodeOriginalPosition returns the position at
\* the first segment whose running generated column (restarted at 0 on each
\* line) is >= targetColumn, the original line 1-indexed; when no segment of
\* the target line reaches targetColumn it returns the last position
\* decoded.
C17_ColumnMatching ==
    (PositionDecoded /\ probe.targetLine < LineCount(probe.items)) =>
        probe.result =
            IF FirstReaching(probe.items, probe.targetLine,
                             probe.targetColumn) # 0
            THEN PositionOver(probe.items,
                     FullBefore(probe.items, probe.targetLine)
                         \cup {i \in FullOn(probe.items, probe.targetLine) :
                                  i <= FirstReaching(probe.items,
                                                     probe.targetLine,
                                                     probe.targetColumn)})
            ELSE PositionOver(probe.items,
                     FullBefore(probe.items, probe.targetLine)
                         \cup FullOn(probe.items, probe.targetLine))

\* "KAGO;CACC,KAGO" at line 1, column 2: the first segment of the line has
\* running column 1 (counted from 0 on that line, not from the 5 of line 0)
\* and the second is the first to reach column 2
C17_Witness ==
    /\ PositionDecoded
    /\ probe.items = <<"k", LineBreak, "c", "k">>
    /\ probe.targetLine = 1
    /\ probe.targetColumn = 2
    /\ probe.result.originalLine = 8
    /\ probe.result.originalColumn = 15

\* C18: decodeOriginalPosition returns null exactly when targetLine is at or
\* beyond the number of ';'-separated lines of the mappings; for a target
\* line in range, an empty line and a line of corrupt segments included, it
\* returns a position.
C18_NullOnlyBeyondLines ==
    PositionDecoded =>
        (probe.result.isNull <=> probe.targetLine >= LineCount(probe.items))

\* "KAGO;" at line 1: the target line is empty and the position of line 0
\* is returned
C18_Witness ==
    /\ PositionDecoded
    /\ probe.items = <<"k", LineBreak>>
    /\ probe.targetLine = 1
    /\ ~probe.result.isNull
    /\ probe.result.originalLine = 4

(***************************************************************************)
(* Stack frame extraction (SpecFrame)                                      *)
(***************************************************************************)

FrameExtracted == probe.fn = "extractStackFrame" /\ probe.pc = "return"

\* What each line is: one that names a denylisted runtime marker, and the
\* unit, line and column of a line of the form
\* 'at <name> (<http(s) URL>:<line>:<column>)'
DenylistedLine(kind) == kind \in {"j", "t", "m", "w", "r", "k", "u"}
UserFrameLine(kind) == kind \in {"a", "b", "p"}
FrameOfKind(kind) ==
    CASE kind = "a" ->
            [isNull |-> FALSE, chunkUrl |-> <<"h","t","t","p",":","/","/","h","/","a",".","j","s">>,
             line |-> 75, column |-> 6]
      [] kind = "b" ->
            [isNull |-> FALSE, chunkUrl |-> <<"h","t","t","p","s",":","/","/","h","/","b",".","j","s">>,
             line |-> 3, column |-> 5]
      [] kind = "p" ->
            [isNull |-> FALSE, chunkUrl |-> <<"h","t","t","p",":","/","/","h",":","8","0","/","a",".","j","s">>,
             line |-> 1, column |-> 4]

\* The first line of the stack, in order, that is of the frame form and
\* names no denylisted marker; 0 when there is none
FirstUserFrame(kinds) ==
    LET user == {i \in 1..Len(kinds) :
                    UserFrameLine(kinds[i]) /\ ~DenylistedLine(kinds[i])}
    IN IF user = {} THEN 0 ELSE CHOOSE i \in user : \A j \in user : i <= j

\* C19: extractStackFrame returns the unit, line and column of the first
\* line of the stack, in order, that is of the form
\* 'at <name> (<http(s) URL>:<line>:<column>)' and holds none of the seven
\* denylisted runtime markers; when the stack is absent or no such line
\* exists it returns null, and resolveComponentSource then resolves to null
\* (the handle has no other location and its owner has no stack).
C19_StackFrameExtraction ==
    FrameExtracted =>
        IF probe.present /\ FirstUserFrame(probe.kinds) # 0
        THEN /\ probe.result =
                    FrameOfKind(probe.kinds[FirstUserFrame(probe.kinds)])
             /\ probe.plan = ReturnMap(probe.result)
        ELSE /\ probe.result = NoFrame
             /\ probe.plan = ReturnNow(Null)

\* A jsxDEV frame, a frame without a column and then the frame of A: the
\* frame of A is returned
C19_Witness ==
    /\ FrameExtracted
    /\ probe.kinds = <<"j", "g", "a">>
    /\ probe.result.chunkUrl = ChunkUrlOf["u1"]
    /\ probe.result.line = 75
    /\ probe.result.column = 6

(***************************************************************************)
(* The owner-chain retry (SpecOwner)                                       *)
(***************************************************************************)

\* The stacks that hold a user frame, and the unit, line and column of it
HoldsFrame(debugStack) ==
    debugStack \in {DebugStack(StackInU1), DebugStack(StackInU2)}
FramePosition(debugStack) ==
    IF debugStack = DebugStack(StackInU1)
    THEN [unit |-> "u1", line |-> 1, col |-> 4]
    ELSE [unit |-> "u2", line |-> 3, col |-> 5]

\* The fibers on the return path of f, f included
RECURSIVE ReturnPath(_, _)
ReturnPath(fibers, f) ==
    IF f = 0 THEN {} ELSE {f} \cup ReturnPath(fibers, fibers[f].return)

\* The function and class components on the return path of f, and the
\* nearest of them: the one whose own return path holds all the others
ComponentsAbove(fibers, f) ==
    {c \in ReturnPath(fibers, f) : fibers[c].tag \in {0, 1}}
NearestComponent(fibers, f) ==
    CHOOSE c \in ComponentsAbove(fibers, f) :
        ComponentsAbove(fibers, f) \subseteq ReturnPath(fibers, c)

\* Call r was given a handle without attribute hint, structured record and
\* stack frame of its own
NoFrameOfItsOwn(r) ==
    /\ ChainCall(r)
    /\ ~HasAttrHint(r)
    /\ ~HasRecord(r)
    /\ ~HoldsFrame(doc.fibers[req[r].origin.index].debugStack)

OwnerStackOf(r) ==
    doc.fibers[NearestComponent(doc.fibers, req[r].origin.index)].debugStack

\* C20: when the handle given to resolveComponentSource yields no stack
\* frame, the frame is looked for once more, on the nearest function or
\* class component on the handle's return path: if that component's stack
\* holds a frame, resolveSourceMap is called for that frame's unit, line and
\* column; if it does not, the call returns null and makes no retrieval,
\* whatever the stacks of the components further up.
C20_OwnerRetry ==
    \A r \in UiRequests :
        NoFrameOfItsOwn(r) =>
            IF HoldsFrame(OwnerStackOf(r))
            THEN /\ req[r].kind = "resolve"
                 /\ req[r].unit = FramePosition(OwnerStackOf(r)).unit
                 /\ req[r].line = FramePosition(OwnerStackOf(r)).line
                 /\ req[r].col = FramePosition(OwnerStackOf(r)).col
            ELSE /\ SettledWithoutMap(r)
                 /\ req[r].result = Null
                 /\ (\A q \in UiRequests : Started(q) => NoFrameOfItsOwn(q)
                        /\ ~HoldsFrame(OwnerStackOf(q)))
                        => fetches = [u \in Units |-> 0]

\* The host fiber of e1 has no stack and its owner, two fibers up, has a
\* frame in u2: the call resolves 3:5 of u2.  The outer component has a
\* frame of its own, which the owner's retry never reads.
C20_Witness ==
    \E r \in UiRequests :
        /\ NoFrameOfItsOwn(r)
        /\ req[r].origin.index = 4
        /\ doc.fibers[1].debugStack = DebugStack(StackInU1)
        /\ doc.fibers[2].debugStack = DebugStack(StackInU2)
        /\ req[r].kind = "resolve"
        /\ req[r].unit = "u2"
        /\ req[r].line = 3
        /\ req[r].col = 5
        /\ fetches["u1"] = 0


\* A walk of the parent relation is running / has returned
Walking == probe.fn \in {"findNearestComponentFiber", "collectComponentAncestry"}
WalkReturned == Walking /\ probe.pc = "return"

\* C21: every walk of the parent (return) relation, by
\* findNearestComponentFiber and by collectComponentAncestry, terminates on
\* any tree, cyclic trees without a component included: a walk that has been
\* entered eventually returns
C21_BoundedTraversal == Walking ~> WalkReturned

\* The part of C21 that holds: collectComponentAncestry never goes beyond
\* its depth cap, and it returns on every tree
AncestryDepthCapped ==
    probe.fn = "collectComponentAncestry"
        => /\ probe.depth <= probe.maxDepth
           /\ Len(probe.ancestors) <= probe.depth
AncestryReturns ==
    (probe.fn = "collectComponentAncestry") ~> (probe.pc = "return")

\* A cyclic tree without a component on which findNearestComponentFiber is
\* walking
CyclicWalkRunning ==
    /\ probe.fn = "findNearestComponentFiber"
    /\ probe.pc = "loop"
    /\ probe.fiber = 1
    /\ probe.current = 2
    /\ doc.fibers[1].return = 2
    /\ doc.fibers[2].return = 1
    /\ doc.fibers[1].tag = 5
    /\ doc.fibers[2].tag = 5


\* C22: the engine is read-only over runtime debug handles: no operation
\* (resolveComponentSource, extractStackFrame, extractDebugSource,
\* findNearestComponentFiber, collectComponentAncestry,
\* collectVisibleChunkUrls, inspectFiber / trackRenderCount) changes a field
\* of a fiber or the parent relation; the document after any sequence of
\* operations is the document before it
C22_ReadOnlyHandles == [][doc' = doc]_vars

\* A fiber has been inspected more than once (its render count was written)
\* and another operation has run after it
C22_Witness ==
    /\ probe.fn = "engine"
    /\ doc = DocFixture
    /\ probe.renderCountMap[1] = 2
    /\ probe.renderCountMap[3] = 1
    /\ probe.op = "collectComponentAncestry"
    /\ probe.result = <<[fiber |-> 3, name |-> <<"B">>],
                        [fiber |-> 1, name |-> <<"A">>]>>


\* toRelativePath has returned
RelativeReturned == probe.fn = "toRelativePath" /\ probe.pc = "return"

\* The root in force: the explicit argument when given, else the
\* environment's, else none
RootInForce ==
    IF probe.projectRoot # Undefined THEN probe.projectRoot.val
    ELSE IF probe.env # Undefined THEN probe.env.val
    ELSE <<>>

\* The marker m occurs in path at the 1-based position i
OccursAt(path, m, i) ==
    /\ i >= 1
    /\ i + Len(m) - 1 <= Len(path)
    /\ \A k \in 1..Len(m) : path[i + k - 1] = m[k]
Occurs(path, m) == \E i \in 1..Len(path) : OccursAt(path, m, i)

\* The number of separators in s
Separators(s) == Cardinality({i \in 1..Len(s) : s[i] = "/"})

\* The suffix of path that starts at position i (Len + 1 for the empty one)
SuffixAt(path, i) == SubSeq(path, i, Len(path))

\* t is the last three '/'-separated segments of path: a suffix with at most
\* two separators that is the whole path or follows a separator and has two
LastThreeSegments(path, t) ==
    \/ Separators(path) <= 2 /\ t = path
    \/ \E i \in 2..(Len(path) + 1) :
          /\ path[i - 1] = "/"
          /\ t = SuffixAt(path, i)
          /\ Separators(t) = 2

\* The root in force is not empty and the path starts with it
RootApplies ==
    /\ RootInForce # <<>>
    /\ Len(RootInForce) <= Len(probe.absolutePath)
    /\ probe.absolutePath
          = RootInForce \o SuffixAt(probe.absolutePath, Len(RootInForce) + 1)

\* C23: toRelativePath tiers: a non-empty root (explicit, else environment)
\* that is a prefix of the path is removed together with one leading '/';
\* otherwise the first of the markers /src/, /app/, /pages/, /components/
\* that occurs in the path gives the path from its directory name onward;
\* otherwise the result is the last three segments of the original path
C23_RelativePathTiers ==
    RelativeReturned =>
        IF RootApplies
        THEN \E rest \in {SuffixAt(probe.absolutePath, Len(RootInForce) + 1)} :
                \/ /\ rest # <<>>
                   /\ rest[1] = "/"
                   /\ <<"/">> \o probe.result = rest
                \/ /\ (rest = <<>> \/ rest[1] # "/")
                   /\ probe.result = rest
        ELSE IF \E k \in 1..Len(PathMarkers) : Occurs(probe.absolutePath, PathMarkers[k])
        THEN \E k \in 1..Len(PathMarkers), i \in 1..Len(probe.absolutePath) :
                /\ OccursAt(probe.absolutePath, PathMarkers[k], i)
                /\ \A j \in 1..(k - 1) : ~Occurs(probe.absolutePath, PathMarkers[j])
                /\ \A h \in 1..(i - 1) : ~OccursAt(probe.absolutePath, PathMarkers[k], h)
                /\ probe.result = SuffixAt(probe.absolutePath, i + 1)
        ELSE LastThreeSegments(probe.absolutePath, probe.result)

\* The spec's example: the explicit root /home/u/proj stripped from
\* /home/u/proj/src/App.tsx although the environment names another root
C23_Witness ==
    /\ RelativeReturned
    /\ probe.absolutePath = <<"/","h","o","m","e","/","u","/","p","r","o","j","/","s","r","c","/","A","p","p",".","t","s","x">>
    /\ probe.projectRoot = Some(<<"/","h","o","m","e","/","u","/","p","r","o","j">>)
    /\ probe.env = Some(<<"/","q">>)
    /\ probe.result = <<"s","r","c","/","A","p","p",".","t","s","x">>


\* The scan of collectVisibleChunkUrls is running or has returned
Scanning == probe.fn = "collectVisibleChunkUrls"

\* The unit of the first qualifying frame of element e, if it has one
FrameUnitOf(e) ==
    IF doc.fiberOf[e] = 0 THEN NoFrame
    ELSE extractStackFrame(doc.fibers[doc.fiberOf[e]].debugStack)

\* The part of C24 about the result: at most `limit` distinct units, each
\* the unit of the first qualifying frame of an element that was scanned
ScanResultBounded ==
    Scanning =>
        /\ Len(probe.urls) <= probe.limit
        /\ \A i, j \in 1..Len(probe.urls) :
              probe.urls[i] = probe.urls[j] => i = j
        /\ \A i \in 1..Len(probe.urls) :
              \E k \in 1..Len(probe.examined) :
                 /\ ~FrameUnitOf(probe.examined[k]).isNull
                 /\ FrameUnitOf(probe.examined[k]).chunkUrl = probe.urls[i]

\* C24: collectVisibleChunkUrls(limit) returns at most limit distinct
\* units, each the unit of the first qualifying frame of a scanned element,
\* and the number of elements the scan examines is bounded by the limit
C24_BoundedScan ==
    /\ ScanResultBounded
    /\ Scanning => Len(probe.examined) <= probe.limit

\* A scan with limit 1 that has returned one unit
ScanReturnedOne ==
    /\ Scanning
    /\ probe.pc = "return"
    /\ probe.limit = 1
    /\ Len(probe.result) = 1


\* extractDebugSource has returned
DebugSourceReturned == probe.fn = "extractDebugSource" /\ probe.pc = "return"

\* The _debugSource of the handle the call was made with; null has none
RecordOfHandle ==
    IF probe.fiber = 0 THEN NoDebugSource
    ELSE doc.fibers[probe.fiber].debugSource

\* C25: extractDebugSource returns a ResolvedSource exactly when the handle
\* has a _debugSource with a non-empty fileName; then filePath is that
\* fileName unchanged, originalLine is lineNumber, or 1 when absent, and
\* originalColumn is columnNumber, or 0 when absent; otherwise it is null
C25_StructuredRecord ==
    DebugSourceReturned =>
        IF RecordOfHandle.has /\ RecordOfHandle.fileName # <<>>
        THEN /\ probe.result.tag = "source"
             /\ probe.result.filePath = RecordOfHandle.fileName
             /\ RecordOfHandle.lineNumber.has
                   => probe.result.originalLine = RecordOfHandle.lineNumber.val
             /\ ~RecordOfHandle.lineNumber.has
                   => probe.result.originalLine = 1
             /\ RecordOfHandle.columnNumber.has
                   => probe.result.originalColumn = RecordOfHandle.columnNumber.val
             /\ ~RecordOfHandle.columnNumber.has
                   => probe.result.originalColumn = 0
        ELSE probe.result.tag = "null"

\* A record with a bundler file name, line 0 and no column has been read:
\* the name is returned as it is, the line stays 0, the column defaults
C25_Witness ==
    /\ DebugSourceReturned
    /\ probe.fiber = 2
    /\ RecordOfHandle.fileName
          = TURBOPACK_PREFIX \o TURBOPACK_PROJECT \o <<"s","r","c","/","a",".","t","s">>
    /\ RecordOfHandle.lineNumber = Num(0)
    /\ ~RecordOfHandle.columnNumber.has
    /\ probe.result.originalLine = 0
    /\ probe.result.originalColumn = 0


\* The closure of the showContextMenu call that built the menu on display:
\* its items and its focused index
MenuOnDisplay ==
    ui.contextMenu.listeners[
        CHOOSE k \in 1..Len(ui.contextMenu.listeners) :
            ui.contextMenu.listeners[k].id = ui.contextMenu.keydownHandler]

\* The part of C26 about the index: the focused index of the menu on
\* display is -1 or the index of one of its rows, and the menu has a row
FocusedIndexInRange ==
    ui.contextMenu.display =>
        /\ Len(MenuOnDisplay.items) >= 1
        /\ Len(ui.contextMenu.rows) = Len(MenuOnDisplay.items)
        /\ MenuOnDisplay.focusedIndex \in -1..(Len(MenuOnDisplay.items) - 1)

\* The parts of C26 about Escape: it hides the menu and opens nothing
EscapeOnlyHides ==
    [][MenuKeyDown("Escape")
          => /\ ~ui'.contextMenu.display
             /\ host'.selected = <<>>
             /\ host'.opened = host.opened
             /\ req' = req]_vars

\* C26: for a menu on display with n >= 1 items and any sequence of
\* ArrowUp, ArrowDown, mouseenter, Enter and Escape events, also after the
\* menu was shown again for another target without being dismissed, the
\* focused index stays within -1..n-1; Enter with a focused item opens
\* exactly one item, the focused item of the menu on display, and hides
\* the menu; Escape hides the menu without opening anything
C26_MenuKeyboardProtocol ==
    /\ []FocusedIndexInRange
    /\ [][(MenuKeyDown("Enter") /\ MenuOnDisplay.focusedIndex >= 0)
             => /\ host'.selected
                     = <<MenuOnDisplay.items[MenuOnDisplay.focusedIndex + 1]>>
                /\ ~ui'.contextMenu.display]_vars
    /\ EscapeOnlyHides

\* The menu has been shown twice without a dismissal in between: two
\* keydown listeners are registered and the older one has a focused item
TwoMenuListeners ==
    /\ ui.contextMenu.display
    /\ Len(ui.contextMenu.listeners) = 2
    /\ ui.contextMenu.listeners[1].focusedIndex >= 0
    /\ MenuOnDisplay.focusedIndex >= 0

\* While only the listener of the menu on display is registered, Enter
\* opens the focused item alone
EnterWithOneListener ==
    [][(/\ MenuKeyDown("Enter")
        /\ Len(ui.contextMenu.listeners) = 1
        /\ MenuOnDisplay.focusedIndex >= 0)
           => /\ host'.selected
                   = <<MenuOnDisplay.items[MenuOnDisplay.focusedIndex + 1]>>
              /\ ~ui'.contextMenu.display]_vars


\* The text `<relative path>:<line>` of each component of the menu page: A
\* through the map of u1, B and C from their structured records
OwnPathText(name) ==
    CASE name = <<"A">> -> <<"s","r","c","/","A","p","p",".","t","s","x",":","1">>
      [] name = <<"B">> -> <<"s","r","c","/","B",".","t","s","x",":","7">>
      [] name = <<"C">> -> <<"s","r","c","/","C",".","t","s","x",":","3">>

\* C30: a resolution started for item i of one shown menu writes its file
\* path only into the row of that menu; when the menu has been dismissed
\* and shown again for another target before the resolution completes, the
\* late result changes no row of the new menu: every row of the menu on
\* display shows no path or the path of its own component
C30_RowUpdatesNotStale ==
    ui.contextMenu.display =>
        \A i \in 1..Len(ui.contextMenu.rows) :
            \/ ui.contextMenu.rows[i].path = <<>>
            \/ ui.contextMenu.rows[i].path
                  = OwnPathText(MenuOnDisplay.items[i].name)

\* While the menu has been shown only once, every written row shows the
\* path of its own component
RowsOfFirstMenuOwnPath ==
    ui.contextMenu.shows <= 1 => C30_RowUpdatesNotStale

\* A row of A has been filled by a resolution that needed the map
RowOfAFilled ==
    /\ ui.contextMenu.display
    /\ \E i \in 1..Len(ui.contextMenu.rows) :
          /\ MenuOnDisplay.items[i].name = <<"A">>
          /\ ui.contextMenu.rows[i].path = OwnPathText(<<"A">>)


\* Nothing of the locator is on display and no debounce timer is pending
AllHidden ==
    /\ ~ui.overlay.display
    /\ ~ui.tooltip.display
    /\ ~ui.contextMenu.display
    /\ ~ui.previewPanel.display
    /\ ui.inspectDebounceTimer = NoElement

\* A mousemove, click or contextmenu event is handled in this step
PointerEvent ==
    \/ \E target \in Elements : MouseMove(target)
    \/ \E inMenu \in BOOLEAN : Click(inMenu)
    \/ ContextMenu

\* C28: in every reachable state in which the modifier key is not held
\* (initially, after its keyup, after window blur) the overlay, the
\* tooltip, the hierarchy menu and the preview panel are hidden and no
\* preview debounce timer is pending; a mousemove, click or contextmenu
\* event that arrives while the modifier is not held shows nothing and
\* starts no resolution
C28_ModifierGating ==
    /\ [](~ui.isModifierHeld => AllHidden)
    /\ [][(~ui.isModifierHeld /\ PointerEvent)
             => /\ ui' = ui
                /\ req' = req
                /\ fetches' = fetches
                /\ cache' = cache
                /\ host'.opened = host.opened]_vars

\* The modifier has been released after a hover over e2 that filled the
\* tooltip and scheduled the preview, and after a menu was shown for e1
\* whose row resolution is still in flight; the pointer is over e1
C28_Witness ==
    /\ ~ui.isModifierHeld
    /\ ui.currentHoverTarget = "e2"
    /\ ui.tooltip.textContent # <<>>
    /\ ui.contextMenu.shows >= 1
    /\ host.pointerAt = "e1"
    /\ props.showPreview
    /\ \E r \in UiRequests : req[r].origin.by = "menu" /\ req[r].pc = "fetch"


\* The element under the pointer belongs to a named component
NamedUnderPointer ==
    /\ host.pointerAt # NoElement
    /\ doc.fiberOf[host.pointerAt] # 0
    /\ getComponentName(
           doc.fibers,
           findNearestComponentFiber(doc.fibers, doc.fiberOf[host.pointerAt]))
          # <<>>

\* C29: when the preview debounce timer fires, the panel is shown only if
\* the element the timer was scheduled for is still the element under the
\* pointer; after the pointer has moved to another element, with or without
\* a named component, a timer scheduled for the previous element never
\* makes the panel visible
C29_PreviewStaleness ==
    [][(TimerFires /\ ui'.previewPanel.display)
          => ui.inspectDebounceTimer = host.pointerAt]_vars

\* The part of C29 that holds: while no menu is on display, a timer never
\* shows the panel for another element than the one under the pointer when
\* that one belongs to a named component
PreviewFreshOverNamed ==
    [][(TimerFires /\ ui'.previewPanel.display
           /\ ~ui.contextMenu.display /\ NamedUnderPointer)
          => ui.inspectDebounceTimer = host.pointerAt]_vars

\* The panel is on display for the element under the pointer
PreviewShownForPointer ==
    /\ ui.previewPanel.display
    /\ ui.previewPanel.of = host.pointerAt


\* ---- C27 ----
Serializing == probe.fn = "safeSerialize" /\ probe.pc # "return"
SerializeReturned == probe.fn = "safeSerialize" /\ probe.pc = "return"

\* The calls made under the call numbered i
ChildCalls(i) == {j \in 1..Len(probe.calls) : probe.calls[j].parent = i}

\* An earlier call was made for the same array, object or element
VisitedBefore(i) ==
    /\ probe.heap[probe.calls[i].value].kind # "number"
    /\ \E j \in 1..(i - 1) : probe.calls[j].value = probe.calls[i].value

SerializeBounded ==
    probe.fn = "safeSerialize" =>
       /\ Len(probe.stack) <= 2
       /\ \A i \in 1..Len(probe.calls) :
             /\ probe.calls[i].depth <= 2
             /\ Cardinality(ChildCalls(i)) <= 3
             /\ VisitedBefore(i) =>
                   /\ ~probe.calls[i].descended
                   /\ probe.calls[i].display = CircularText
                   /\ ChildCalls(i) = {}

\* The call by call run returns what the function returns
SerializeAgrees ==
    SerializeReturned =>
       /\ probe.result.display = safeSerialize(probe.heap, probe.value, {}, 0).display
       /\ probe.result.type = safeSerialize(probe.heap, probe.value, {}, 0).type

\* C27: every call of safeSerialize returns, on graphs with cycles too; a
\* value visited earlier in the same serialization is rendered '[Circular]'
\* and not descended into, no call is made deeper than depth 2, and no call
\* expands more than 3 items of an array or 3 keys of an object
C27_SerializeTerminates ==
    /\ [](SerializeBounded /\ SerializeAgrees)
    /\ Serializing ~> SerializeReturned

\* A cyclic graph was serialized: a revisited value, a call at depth 2 and
\* a list longer than the limit all occurred
C27_Witness ==
    /\ SerializeReturned
    /\ \E i \in 1..Len(probe.calls) : VisitedBefore(i) /\ probe.calls[i].value = 1
    /\ \E i \in 1..Len(probe.calls) :
          probe.calls[i].depth = 2 /\ probe.heap[probe.calls[i].value].kind # "number"
    /\ Len(probe.heap[1].items) > 3

=============================================================================
